---- MODULE Spec2Model ----
(***************************************************************************)
(* A model of the scene-controller runtime: the time-chunk buffer and its  *)
(* dispatcher (controller/time_chunking.py), the scene cache               *)
(* (controller/cache_manager.py), a scene's configuration update, message  *)
(* processing and event passes (controller/scene.py) and the controller's  *)
(* handlers (controller/scene_controller.py).  Each subsystem has          *)
(* specifications of its own: SpecChunk, SpecLock and SpecFacade for the  *)
(* time chunking; SpecCache and SpecCamParams for the cache; SpecScene and *)
(* SpecGeo for the configuration; SpecTick, SpecRate, SpecSensor,          *)
(* SpecEvents and SpecCrossings for the messages and event passes;         *)
(* SpecPublish, SpecIngest, SpecSubscribe, SpecHandle and SpecRegulate for *)
(* the controller.                                                         *)
(*                                                                         *)
(* A Python dict whose iteration order matters is modelled as a sequence   *)
(* of [key, val] entries in insertion order, which is the order Python     *)
(* iterates it in; the other dicts are functions.  Times are in half       *)
(* seconds.                                                                *)
(***************************************************************************)
EXTENDS Integers, Sequences, FiniteSets, TLC

\* ------------------------------------------------------------------ bounds

\* trackObjects calls made by the handler thread
MaxFrames == 3

Categories == {"person", "vehicle"}
CameraIDs == {"cam1", "cam2"}

\* The `categories` argument of trackObjects, a list.  Scene._finishProcessing
\* passes [detectionType]; an empty list selects every existing tracker.
CategoryLists == { <<>>, <<"person">>, <<"vehicle">> }

VARIABLES
  \* --- time chunking (TimeChunkedIntelLabsTracking, TimeChunkProcessor)
  buffer_data,    \* TimeChunkBuffer._data: dict category -> dict camera -> tuple
  trackers,       \* TimeChunkedIntelLabsTracking.trackers: its keys, in order
  queue,          \* tracker.queue of each category's tracker
  dropped,        \* metrics dropped{reason=tracker_busy, category}
  dpc,            \* the dispatcher thread: "none", "sleep", "check" or "put"
  category_data,  \* run(): the categories of the popped buffer still to visit
  run_category,   \* run(): the category being visited
  camera_dict,    \* run(): the cameras of that category still to enqueue
  frames,         \* history: number of trackObjects calls so far
  admissions,     \* history: every keyed tuple passed to add
  taken,          \* history: `admissions` at the dispatcher's last pop_all
  dropped_taken,  \* history: `dropped` at the dispatcher's last pop_all
  pass_seen,      \* history: category -> what the current pass found for it
  pass_puts,      \* history: the puts of the current pass, in order
  enqueued,       \* history: every put so far, in order
  discarded,      \* history: the keyed tuples dropped because a queue was busy
  lock,           \* TimeChunkBuffer._lock: the thread that holds it, or "free"
  adding,         \* the handler thread's call of TimeChunkBuffer.add
  snapshots,      \* history: the keyed tuples of every snapshot pop_all returned
  facades,        \* every tracker facade built for the scene, with its dispatcher
  \* --- scene configuration (Scene)
  current_scene,  \* a Scene object
  chain_data,     \* gid -> the chain data of the tracked object
  max_now,        \* history: the largest time of an event pass so far
  \* --- publishing (SceneController)
  regulate_cache, \* SceneController.regulate_cache
  clock,          \* get_epoch_time(), in half seconds
  pubs,           \* history: what has been published for each scene and category
  controller,     \* SceneController: rewrite_bad_time, rewrite_all_time, max_lag
  metrics_dropped, \* metrics dropped{reason=fell_behind}
  subscribed,     \* SceneController.subscribed: the (topic, callback) pairs
  subscribed_children, \* SceneController.subscribed_children: id -> child client
  callbacks,      \* the callbacks the PubSub client holds, by topic
  \* --- scene cache (CacheManager)
  cache_manager,  \* the CacheManager object
  fetched,        \* history: the result of the last getScenes() that had results
  since_invalidate, \* history: lookups since the last invalidate() (-1: none yet)
  \* --- all
  last            \* history: the operation that led to this state

threadVars == << lock, adding, snapshots, facades >>

chunkVars ==
  << buffer_data, trackers, queue, dropped, dpc, category_data, run_category,
     camera_dict, frames, admissions, taken, dropped_taken, pass_seen, pass_puts,
     enqueued, discarded, threadVars >>

cacheVars == << cache_manager, fetched, since_invalidate >>

sceneVars == << current_scene, chain_data, max_now >>

subscribeVars == << subscribed, subscribed_children, callbacks >>

publishVars ==
  << regulate_cache, clock, pubs, controller, metrics_dropped, subscribeVars >>

vars == << chunkVars, sceneVars, cacheVars, publishVars, last >>

\* ------------------------------------------------------------- Python dict

DictKeys(d) == { d[i].key : i \in DOMAIN d }

DictHas(d, k) == k \in DictKeys(d)

DictGet(d, k) == d[CHOOSE i \in DOMAIN d : d[i].key = k].val

\* a store that adds an entry without looking for the key
DictSetAppend(d, k, v) == Append(d, [key |-> k, val |-> v])

\* d[k] = v: an existing key keeps its place, a new key goes last
DictSet(d, k, v) ==
  IF DictHas(d, k)
  THEN [ i \in DOMAIN d |-> IF d[i].key = k THEN [key |-> k, val |-> v] ELSE d[i] ]
  ELSE Append(d, [key |-> k, val |-> v])

\* d.get(k, default)
MapGet(d, k, default) == IF k \in DOMAIN d THEN d[k] ELSE default

\* d[k] = v
MapSet(d, k, v) == [ q \in DOMAIN d \cup {k} |-> IF q = k THEN v ELSE d[q] ]

\* d.pop(k, None)
MapPop(d, k) == [ q \in DOMAIN d \ {k} |-> d[q] ]


\* ------------------------------------------------------- TimeChunkBuffer

\* add(camera_id, category, objects, when, already_tracked)
BufferAdd(data, camera_id, cat, tuple) ==
  LET withCategory == IF DictHas(data, cat)
                      THEN data
                      ELSE DictSet(data, cat, <<>>)
  IN  DictSet(withCategory, cat,
              DictSet(DictGet(withCategory, cat), camera_id, tuple))

\* the add_message calls of one trackObjects call, category by category
RECURSIVE AddMessages(_, _, _, _)
AddMessages(data, camera_id, categories, tuple) ==
  IF categories = <<>>
  THEN data
  ELSE AddMessages(BufferAdd(data, camera_id, Head(categories), tuple),
                   camera_id, Tail(categories), tuple)

\* a pop_all that returns the data and forgets to clear it
BufferPopAllKeep(data) == [result |-> data, data |-> data]

\* pop_all(): what it returns and what it leaves in _data
BufferPopAll(data) == [result |-> data, data |-> <<>>]

NoTuple == [camera_id |-> "none", frame |-> 0]

\* the handler thread is in no call of add
Idle == [pc |-> "idle", camera_id |-> "none", category |-> "none", tuple |-> NoTuple]

\* the tuple buffered for (cat, camera_id), or NoTuple
Buffered(data, cat, camera_id) ==
  IF DictHas(data, cat) /\ DictHas(DictGet(data, cat), camera_id)
  THEN DictGet(DictGet(data, cat), camera_id)
  ELSE NoTuple

\* ----------------------------------------- TimeChunkedIntelLabsTracking

\* _createIlabsTrackers: a tracker for each category that has none
RECURSIVE CreateIlabsTrackers(_, _)
CreateIlabsTrackers(trks, categories) ==
  IF categories = <<>>
  THEN trks
  ELSE CreateIlabsTrackers(
         IF \E i \in DOMAIN trks : trks[i] = Head(categories)
         THEN trks
         ELSE Append(trks, Head(categories)),
         Tail(categories))

NoOp == [op |-> "init"]

\* trackObjects(objects, already_tracked_objects, when, categories, ...):
\* `objects` is empty or holds detections of `camera_id`
trackObjects(camera_id, categories, has_objects, use_tracker) ==
  /\ frames < MaxFrames
  /\ frames' = frames + 1
  /\ IF ~use_tracker
     THEN \* raise NotImplementedError
          /\ UNCHANGED << buffer_data, trackers, dpc, admissions >>
          /\ last' = [op |-> "trackObjects", raised |-> TRUE, buffered |-> FALSE,
                      camera_id |-> "none", categories |-> <<>>,
                      frame |-> 0, before |-> <<>>]
     ELSE LET trks == CreateIlabsTrackers(trackers, categories)
              cats == IF categories = <<>> THEN trks ELSE categories
              tuple == [camera_id |-> camera_id, frame |-> frames + 1]
          IN  /\ trackers' = trks
              /\ dpc' = IF dpc = "none" THEN "sleep" ELSE dpc
              /\ IF has_objects
                 THEN /\ buffer_data' = AddMessages(buffer_data, camera_id, cats, tuple)
                      /\ admissions' = admissions \cup
                           { [category |-> cats[i], camera_id |-> camera_id,
                              frame |-> frames + 1] : i \in DOMAIN cats }
                 ELSE \* objects[0] raises IndexError: nothing is buffered
                      UNCHANGED << buffer_data, admissions >>
              /\ last' = IF has_objects
                          THEN [op |-> "trackObjects", raised |-> FALSE,
                                buffered |-> TRUE,
                                camera_id |-> camera_id, categories |-> cats,
                                frame |-> frames + 1, before |-> buffer_data]
                          ELSE [op |-> "trackObjects", raised |-> FALSE,
                                buffered |-> FALSE,
                                camera_id |-> "none", categories |-> <<>>,
                                frame |-> 0, before |-> <<>>]
  /\ UNCHANGED << sceneVars, cacheVars, publishVars, threadVars >>
  /\ UNCHANGED << queue, dropped, category_data, run_category, camera_dict, taken,
                  dropped_taken, pass_seen, pass_puts, enqueued, discarded >>

\* ---------------------------------------------------- TimeChunkProcessor

\* the keyed tuples of one category's camera dict
KeyedTuples(cat, cams) ==
  { [category |-> cat, camera_id |-> cams[i].key, frame |-> cams[i].val.frame] :
      i \in DOMAIN cams }

\* run(): time.sleep(interval), then category_data = self.buffer.pop_all()
PopAll ==
  /\ dpc = "sleep"
  /\ category_data' = BufferPopAll(buffer_data).result
  /\ buffer_data' = BufferPopAll(buffer_data).data
  /\ dpc' = IF BufferPopAll(buffer_data).result = <<>> THEN "sleep" ELSE "check"
  /\ taken' = admissions
  /\ dropped_taken' = dropped
  /\ pass_seen' = {}
  /\ pass_puts' = <<>>
  /\ last' = [op |-> "pop_all"]
  /\ UNCHANGED << sceneVars, cacheVars, publishVars, threadVars >>
  /\ UNCHANGED << trackers, queue, dropped, run_category, camera_dict, frames,
                  admissions, enqueued, discarded >>

\* where the loop over category_data goes once `rest` is what is left of it
NextCategory(rest) == IF rest = <<>> THEN "sleep" ELSE "check"

\* a check that finds every queue empty
QueueEmptyAlways(q) == TRUE

\* tracker.queue.empty()
QueueEmpty(q) == q = <<>>

\* run(): the next category of the popped data: skip it when its tracker's
\* queue is not empty, else start enqueueing its cameras
CheckQueue ==
  /\ dpc = "check"
  /\ LET cat == Head(category_data).key
         cams == Head(category_data).val
         rest == Tail(category_data)
         known == \E i \in DOMAIN trackers : trackers[i] = cat
         busy == known /\ ~QueueEmpty(queue[cat])
     IN  /\ category_data' = rest
         /\ run_category' = cat
         /\ IF busy
            THEN /\ dropped' = [dropped EXCEPT ![cat] = @ + 1]
                 /\ discarded' = discarded \cup KeyedTuples(cat, cams)
                 /\ camera_dict' = <<>>
                 /\ dpc' = NextCategory(rest)
            ELSE /\ UNCHANGED << dropped, discarded >>
                 /\ camera_dict' = IF known THEN cams ELSE <<>>
                 /\ dpc' = IF known /\ cams # <<>> THEN "put" ELSE NextCategory(rest)
         /\ pass_seen' = pass_seen \cup
                           { [category |-> cat, queue_len |-> Len(queue[cat]),
                              cameras |-> DictKeys(cams)] }
         /\ last' = [op |-> "check"]
  /\ UNCHANGED << sceneVars, cacheVars, publishVars, threadVars >>
  /\ UNCHANGED << buffer_data, trackers, queue, frames, admissions, taken,
                  dropped_taken, pass_puts, enqueued >>

\* run(): tracker.queue.put((objects, when, already_tracked)) for the next camera
Put ==
  /\ dpc = "put"
  /\ LET tuple == Head(camera_dict).val
         entry == [category |-> run_category, camera_id |-> Head(camera_dict).key,
                   frame |-> tuple.frame]
     IN  /\ queue' = [queue EXCEPT ![run_category] = Append(@, tuple)]
         /\ pass_puts' = Append(pass_puts, entry)
         /\ enqueued' = Append(enqueued, entry)
         /\ last' = [op |-> "put"]
  /\ UNCHANGED << sceneVars, cacheVars, publishVars, threadVars >>
  /\ camera_dict' = Tail(camera_dict)
  /\ dpc' = IF Tail(camera_dict) = <<>> THEN NextCategory(category_data) ELSE "put"
  /\ UNCHANGED << buffer_data, trackers, dropped, category_data, run_category,
                  frames, admissions, taken, dropped_taken, pass_seen, discarded >>

\* the category's tracker worker takes the tuple at the head of its queue
WorkerGet(cat) ==
  /\ queue[cat] # <<>>
  /\ queue' = [queue EXCEPT ![cat] = Tail(@)]
  /\ last' = [op |-> "get"]
  /\ UNCHANGED << sceneVars, cacheVars, publishVars, threadVars >>
  /\ UNCHANGED << buffer_data, trackers, dropped, dpc, category_data, run_category,
                  camera_dict, frames, admissions, taken, dropped_taken, pass_seen,
                  pass_puts, enqueued, discarded >>

ChunkInit ==
  /\ buffer_data = <<>>
  /\ trackers = <<>>
  /\ queue = [c \in Categories |-> <<>>]
  /\ dropped = [c \in Categories |-> 0]
  /\ dpc = "none"
  /\ category_data = <<>>
  /\ run_category = "none"
  /\ camera_dict = <<>>
  /\ frames = 0
  /\ admissions = {}
  /\ taken = {}
  /\ dropped_taken = [c \in Categories |-> 0]
  /\ pass_seen = {}
  /\ pass_puts = <<>>
  /\ enqueued = <<>>
  /\ discarded = {}
  /\ lock = "free"
  /\ adding = Idle
  /\ snapshots = {}
  /\ facades = <<>>

\* no controller has subscribed
NoSubscriptions ==
  /\ subscribed = {}
  /\ subscribed_children = <<>>
  /\ callbacks = <<>>

\* no controller publishes
NoPublisher ==
  /\ regulate_cache = <<>>
  /\ clock = 0
  /\ pubs = <<>>
  /\ controller = <<>>
  /\ metrics_dropped = 0
  /\ NoSubscriptions

\* the variables of the scene and of the cache where neither is in use
NoSceneNoCache ==
  /\ current_scene = <<>>
  /\ chain_data = <<>>
  /\ max_now = -1
  /\ NoPublisher
  /\ cache_manager = <<>>
  /\ fetched = <<>>
  /\ since_invalidate = -1

InitChunk ==
  /\ ChunkInit
  /\ NoSceneNoCache
  /\ last = NoOp

Handler ==
  \E camera_id \in CameraIDs, categories \in CategoryLists,
     has_objects \in BOOLEAN, use_tracker \in BOOLEAN :
    trackObjects(camera_id, categories, has_objects, use_tracker)

Worker == \E cat \in Categories : WorkerGet(cat)

NextChunk ==
  \/ Handler
  \/ PopAll
  \/ CheckQueue
  \/ Put
  \/ Worker

SpecChunk == InitChunk /\ [][NextChunk]_vars

\* =================================================================== Scene
\* An object is a record.  Its field isNew tells that the object was
\* constructed by the operation that led to the current state: an object that
\* an operation keeps has isNew = FALSE after it, one that it constructs
\* (in place of an old one or not) has isNew = TRUE.

\* tracking.MAX_UNRELIABLE_TIME, NON_MEASUREMENT_TIME_DYNAMIC and
\* NON_MEASUREMENT_TIME_STATIC, the defaults of Scene.__init__, on the scale
\* of the tracker times of TrackerConfigs
MAX_UNRELIABLE_TIME == 1
NON_MEASUREMENT_TIME_DYNAMIC == 1
NON_MEASUREMENT_TIME_STATIC == 1

DEFAULT_CHUNKING_INTERVAL_MS == 50

DEFAULT_TRACKER == "intel_labs"

\* Scene.available_trackers
available_trackers == {"intel_labs", "time_chunked_intel_labs"}

\* the argument tuple of tracker_config, or <<>> for a scene_data without one
NoTrackerConfig == <<>>

\* Scene._setTracker: a new tracker of the given type, built from the scene's
\* current times (and interval, for the time-chunked facade)
setTracker(scene, trackerType) ==
  IF trackerType \notin available_trackers
  THEN scene
  ELSE [scene EXCEPT
          !.trackerType = trackerType,
          !.tracker =
            [ class |-> trackerType,
              isNew |-> TRUE,
              max_unreliable_time |-> scene.max_unreliable_time,
              non_measurement_time_dynamic |-> scene.non_measurement_time_dynamic,
              non_measurement_time_static |-> scene.non_measurement_time_static,
              time_chunking_interval_milliseconds |->
                IF trackerType = "time_chunked_intel_labs"
                THEN scene.time_chunking_interval_milliseconds
                ELSE 0 ] ]

\* Scene.updateTracker
updateTracker(scene, max_unreliable_time, non_measurement_time_dynamic, non_measurement_time_static) ==
  IF \/ max_unreliable_time # scene.max_unreliable_time
     \/ non_measurement_time_dynamic # scene.non_measurement_time_dynamic
     \/ non_measurement_time_static # scene.non_measurement_time_static
  THEN setTracker([scene EXCEPT
                     !.max_unreliable_time = max_unreliable_time,
                     !.non_measurement_time_dynamic = non_measurement_time_dynamic,
                     !.non_measurement_time_static = non_measurement_time_static],
                  scene.trackerType)
  ELSE scene

\* The event state of a region, sensor or tripwire: objects, entered and
\* exited per detection type, the debounce timestamp `when` and, for a sensor,
\* value, lastValue and lastWhen (-1 where Python has None or no attribute).
\* NoLive is the event state of an object that has seen no event.
NoLive ==
  [ objects |-> <<>>, entered |-> <<>>, exited |-> <<>>, when |-> 0,
    value |-> -1, lastValue |-> -1, lastWhen |-> -1 ]

\* Camera(camID, cameraData, resolution=...)
NewCamera(cameraData) == [ isNew |-> TRUE, data |-> cameraData ]

\* Region(region_uuid, region_name, regionData)
NewRegion(regionData) ==
  [ isNew |-> TRUE, name |-> regionData.name, points |-> regionData.points,
    live |-> NoLive ]

\* Tripwire(tripwire_uuid, tripwire_name, tripwireData)
NewTripwire(tripwireData) ==
  [ isNew |-> TRUE, name |-> tripwireData.name, points |-> tripwireData.points,
    live |-> NoLive ]

\* region.updatePoints / updateSingletonType / updateVolumetricInfo, and the
\* assignment of the name: the region object is kept and reconfigured
RegionUpdate(region, regionData) ==
  [region EXCEPT !.name = regionData.name, !.points = regionData.points]

\* Scene.updateCameras: newCameras maps each uid of the new list to its data
updateCameras(cameras, newCameras) ==
  [ camID \in DOMAIN newCameras |-> NewCamera(newCameras[camID]) ]

\* an _updateRegions that constructs every region of the new list
updateRegionsRebuild(existingRegions, newRegions) ==
  [ uid \in DOMAIN newRegions |-> NewRegion(newRegions[uid]) ]

\* Scene._updateRegions, for the regions and for the sensors
updateRegions(existingRegions, newRegions) ==
  [ uid \in DOMAIN newRegions |->
      IF uid \in DOMAIN existingRegions
      THEN RegionUpdate(existingRegions[uid], newRegions[uid])
      ELSE NewRegion(newRegions[uid]) ]

\* Scene._updateTripwires
updateTripwires(tripwires, newTripwires) ==
  [ uid \in DOMAIN newTripwires |-> NewTripwire(newTripwires[uid]) ]

\* Python's None, for a rate, a time or a value
None == -1

\* the value of _trs_xyz_to_lla while no matrix is cached
NoTrs == [computed |-> FALSE, corners |-> "None"]

\* calculateTRSLocal2LLAFromSurfacePoints: the matrix, named by the corners it
\* was computed from
calculateTRS(map_corners_lla) == [computed |-> TRUE, corners |-> map_corners_lla]

\* the trs_xyz_to_lla property as a statement: it computes the matrix when
\* none is cached and both prerequisites are there
trs_xyz_to_lla(scene) ==
  IF scene.trs = NoTrs /\ scene.output_lla /\ scene.map_corners_lla # "None"
  THEN [scene EXCEPT !.trs = calculateTRS(scene.map_corners_lla)]
  ELSE scene

\* a Scene._invalidate_trs_xyz_to_lla that keeps the cached matrix
keep_trs_xyz_to_lla(scene) == scene

\* Scene._invalidate_trs_xyz_to_lla
invalidate_trs_xyz_to_lla(scene) == [scene EXCEPT !.trs = NoTrs]

\* Scene.updateScene
updateScene(scene, scene_data) ==
  LET configured ==
        [scene EXCEPT
           !.use_tracker = scene_data.use_tracker,
           !.output_lla = scene_data.output_lla,
           !.map_corners_lla = scene_data.map_corners_lla,
           !.cameras = updateCameras(scene.cameras, scene_data.cameras),
           !.regions = updateRegions(scene.regions, scene_data.regions),
           !.tripwires = updateTripwires(scene.tripwires, scene_data.tripwires),
           !.sensors = updateRegions(scene.sensors, scene_data.sensors)]
      tracker_config == scene_data.tracker_config
      tracked ==
        IF tracker_config # NoTrackerConfig
        THEN updateTracker(configured, tracker_config[1], tracker_config[2],
                           tracker_config[3])
        ELSE configured
      named ==
        [tracked EXCEPT
           !.name = scene_data.name,
           !.regulated_rate = scene_data.regulated_rate,
           !.external_update_rate = scene_data.external_update_rate]
  IN  trs_xyz_to_lla(invalidate_trs_xyz_to_lla(
        MapSet(MapSet(named, "parent", MapGet(scene_data, "parent", "None")),
               "children", MapGet(scene_data, "children", <<>>))))

\* scene.events: for each event type the keys of the regions, sensors or
\* tripwires staged under it, in order; an event type without entry has none
NoEvents == [value |-> <<>>, objects |-> <<>>, count |-> <<>>]

\* Scene.__init__(name, map_file, scale, *tracker_config)
NewScene(scene_data) ==
  LET tracker_config == scene_data.tracker_config
      given == tracker_config # NoTrackerConfig
      blank ==
        [ uid |-> scene_data.uid,
          isNew |-> TRUE,
          name |-> scene_data.name,
          max_unreliable_time |->
            IF given THEN tracker_config[1] ELSE MAX_UNRELIABLE_TIME,
          non_measurement_time_dynamic |->
            IF given THEN tracker_config[2] ELSE NON_MEASUREMENT_TIME_DYNAMIC,
          non_measurement_time_static |->
            IF given THEN tracker_config[3] ELSE NON_MEASUREMENT_TIME_STATIC,
          time_chunking_interval_milliseconds |->
            IF given THEN tracker_config[5] ELSE DEFAULT_CHUNKING_INTERVAL_MS,
          trackerType |-> "none",
          tracker |-> [class |-> "none"],
          ref_camera_frame_rate |-> None,
          use_tracker |-> TRUE,
          output_lla |-> FALSE,
          map_corners_lla |-> "None",
          trs |-> NoTrs,
          regulated_rate |-> None,
          external_update_rate |-> None,
          events |-> NoEvents,
          cameras |-> <<>>,
          regions |-> <<>>,
          tripwires |-> <<>>,
          sensors |-> <<>> ]
  IN  setTracker(blank,
                 IF given /\ tracker_config[4]
                 THEN "time_chunked_intel_labs"
                 ELSE DEFAULT_TRACKER)

\* Scene.deserialize
deserialize(scene_data) ==
  LET scene == NewScene(scene_data)
      configured ==
        [scene EXCEPT
           !.use_tracker = scene_data.use_tracker,
           !.output_lla = scene_data.output_lla,
           !.map_corners_lla = scene_data.map_corners_lla,
           !.regulated_rate = scene_data.regulated_rate,
           !.external_update_rate = scene_data.external_update_rate,
           !.cameras = updateCameras(scene.cameras, scene_data.cameras),
           !.regions = updateRegions(scene.regions, scene_data.regions),
           !.tripwires = updateTripwires(scene.tripwires, scene_data.tripwires),
           !.sensors = updateRegions(scene.sensors, scene_data.sensors)]
      tracker_config == scene_data.tracker_config
      tracked ==
        IF tracker_config # NoTrackerConfig
        THEN updateTracker(configured, tracker_config[1], tracker_config[2],
                           tracker_config[3])
        ELSE configured
      with_children ==
        IF "children" \in DOMAIN scene_data
        THEN MapSet(MapSet(tracked, "retrack", MapGet(scene_data, "retrack", TRUE)),
                    "children", scene_data.children)
        ELSE MapSet(tracked, "retrack", MapGet(scene_data, "retrack", TRUE))
      parented ==
        IF "parent" \in DOMAIN scene_data
        THEN MapSet(with_children, "parent", scene_data.parent)
        ELSE with_children
  IN  trs_xyz_to_lla(parented)

\* the objects of a map (cameras, regions, ...) as an operation finds them
AgedMap(objs) == [ uid \in DOMAIN objs |-> [objs[uid] EXCEPT !.isNew = FALSE] ]

\* a scene as an operation finds it: none of its objects is new
Aged(scene) ==
  [scene EXCEPT
     !.isNew = FALSE,
     !.tracker = [scene.tracker EXCEPT !.isNew = FALSE],
     !.cameras = AgedMap(scene.cameras),
     !.regions = AgedMap(scene.regions),
     !.tripwires = AgedMap(scene.tripwires),
     !.sensors = AgedMap(scene.sensors)]

\* ------------------------------------------------------ Scene: event passes
\* Times are whole multiples of half a second, which get_iso_time and
\* get_epoch_time write and read back exactly.
\* A tracked object is known by its gid.  The tracker's current objects of a
\* pass are a map from gid to [frameCount, within, crosses]: within holds the
\* regions and sensors that the object is in (isPointWithin or
\* isIntersecting), crosses the tripwires that the line of its last two
\* published locations crosses.  chain_data maps each gid to the chain data
\* that the tracker keeps with the object: regions, the entered time per
\* region key, and publishedLocations, the number of locations (2 for more).
\* The sensor readings kept in chain_data.sensors are left out.

\* DEBOUNCE_DELAY = 0.5 s
DEBOUNCE_DELAY == 1

\* the order in which the keys of a dict of regions, sensors or tripwires are
\* iterated: the order of the configuration's list
KeyOrder == << "r1", "r2", "n1", "t1", "t2" >>

KeysInOrder(d) == SelectSeq(KeyOrder, LAMBDA k : k \in DOMAIN d)

\* a debounce test that lets a change through at the boundary
DebouncedAtBoundary(now, when) == now - when >= DEBOUNCE_DELAY

\* now - region.when > DEBOUNCE_DELAY
Debounced(now, when) == now - when > DEBOUNCE_DELAY

\* a frameCount gate that opens one frame early
ReliableFromThree(obj) == obj.frameCount > 2

\* obj.frameCount > 3
Reliable(obj) == obj.frameCount > 3

\* a marking of the new objects that leaves their chain data alone
MarkEnteredNever(chains, new, key, now) == chains

\* the loop over newObjects of _updateRegionEvents: an object without entry
\* for the region gets one with entered = now
MarkEntered(chains, new, key, now) ==
  [ g \in DOMAIN chains |->
      IF g \in new /\ key \notin DOMAIN chains[g].regions
      THEN [chains[g] EXCEPT !.regions = MapSet(@, key, now)]
      ELSE chains[g] ]

\* a count test that answers to any change of the occupants
SetDiffers(cur, prev) == cur # prev

\* len(cur) != len(prev)
CountDiffers(cur, prev) == Cardinality(cur) # Cardinality(prev)

\* an entered list of the objects whose entry was written in this pass only
EnteredJustNow(objects, new, marked, key, now) ==
  { g \in objects : /\ g \in new
                    /\ key \in DOMAIN marked[g].regions
                    /\ marked[g].regions[key] = now }

\* the loop that builds `entered`: the new objects with an entry for the region
EnteredOf(objects, new, marked, key, now) ==
  { g \in objects : g \in new /\ key \in DOMAIN marked[g].regions }

\* the body of the loop of _updateRegionEvents for the region (or sensor,
\* as `which` says) under key; w holds the scene, the chain data, the largest
\* time of an event pass and what the call returns
RegionEvents(w, which, key, detectionType, now, curObjects) ==
  LET scene == w.scene
      region == scene[which][key]
      regionObjects == MapGet(region.live.objects, detectionType, {})
      objects == { g \in DOMAIN curObjects :
                     /\ Reliable(curObjects[g]) \/ ~scene.use_tracker
                     /\ key \in curObjects[g].within }
      new == objects \ regionObjects
      old == regionObjects \ objects
      marked == MarkEntered(w.chain_data, new, key, now)
  IN  IF (new # {} \/ old # {}) /\ Debounced(now, region.live.when)
      THEN LET entered == EnteredOf(objects, new, marked, key, now)
               exited == { [gid |-> g, dwell |-> now - marked[g].regions[key]] :
                             g \in { x \in old : key \in DOMAIN marked[x].regions } }
               popped == [ g \in DOMAIN marked |->
                             IF g \in old
                             THEN [marked[g] EXCEPT !.regions = MapPop(@, key)]
                             ELSE marked[g] ]
               live == [region.live EXCEPT
                          !.entered = MapSet(@, detectionType, entered),
                          !.exited = MapSet(@, detectionType, exited),
                          !.objects = MapSet(@, detectionType, objects),
                          !.when = now]
               events == [scene.events EXCEPT
                            !.objects = Append(@, key),
                            !.count = IF CountDiffers(objects, regionObjects)
                                      THEN Append(@, key)
                                      ELSE @]
           IN  [w EXCEPT
                  !.scene = [scene EXCEPT ![which][key].live = live, !.events = events],
                  !.chain_data = popped]
      ELSE [w EXCEPT !.chain_data = marked]

\* Scene._updateRegionEvents, from the first of keys on
RECURSIVE updateRegionEvents(_, _, _, _, _, _)
updateRegionEvents(w, which, keys, detectionType, now, curObjects) ==
  IF keys = <<>>
  THEN w
  ELSE updateRegionEvents(
         RegionEvents(w, which, Head(keys), detectionType, now, curObjects),
         which, Tail(keys), detectionType, now, curObjects)

\* a test that takes one published location for a segment
HasLocation(chain) == chain.publishedLocations > 0

\* len(obj.chain_data.publishedLocations) > 1
HasSegment(chain) == chain.publishedLocations > 1

\* the body of the loop of _updateTripwireEvents for the tripwire under key
TripwireEvents(w, key, detectionType, now, curObjects) ==
  LET scene == w.scene
      tripwire == scene.tripwires[key]
      tripwireObjects == MapGet(tripwire.live.objects, detectionType, {})
      objects == { g \in DOMAIN curObjects :
                     /\ Reliable(curObjects[g])
                     /\ HasSegment(w.chain_data[g])
                     /\ key \in curObjects[g].crosses }
  IN  IF Cardinality(tripwireObjects) # Cardinality(objects)
         /\ Debounced(now, tripwire.live.when)
      THEN [w EXCEPT
              !.scene.tripwires[key].live.objects = MapSet(@, detectionType, objects),
              !.scene.tripwires[key].live.when = now,
              !.scene.events.objects = Append(@, key)]
      ELSE w

\* Scene._updateTripwireEvents, from the first of keys on
RECURSIVE updateTripwireEvents(_, _, _, _, _)
updateTripwireEvents(w, keys, detectionType, now, curObjects) ==
  IF keys = <<>>
  THEN w
  ELSE updateTripwireEvents(
         TripwireEvents(w, Head(keys), detectionType, now, curObjects),
         Tail(keys), detectionType, now, curObjects)

\* Scene._updateEvents, where tracker.currentObjects(detectionType) is curObjects
updateEvents(w, detectionType, now, curObjects) ==
  LET located ==
        [ g \in DOMAIN w.chain_data |->
            IF g \in DOMAIN curObjects /\ w.chain_data[g].publishedLocations < 2
            THEN [w.chain_data[g] EXCEPT !.publishedLocations = @ + 1]
            ELSE w.chain_data[g] ]
      w0 == [w EXCEPT
               !.scene.events = NoEvents,
               !.chain_data = located,
               !.max_now = IF now > @ THEN now ELSE @]
      w1 == updateRegionEvents(w0, "regions", KeysInOrder(w0.scene.regions),
                               detectionType, now, curObjects)
      w2 == updateRegionEvents(w1, "sensors", KeysInOrder(w1.scene.sensors),
                               detectionType, now, curObjects)
  IN  updateTripwireEvents(w2, KeysInOrder(w2.scene.tripwires),
                           detectionType, now, curObjects)

\* ------------------------------------------------- a scene being configured

\* the tracker_config lists of a scene_data: absent, or (max_unreliable_time,
\* non_measurement_time_dynamic, non_measurement_time_static,
\* time_chunking_enabled, time_chunking_interval_milliseconds)
TrackerConfigs ==
  { NoTrackerConfig,
    << 1, 1, 1, FALSE, DEFAULT_CHUNKING_INTERVAL_MS >>,
    << 2, 1, 1, FALSE, DEFAULT_CHUNKING_INTERVAL_MS >>,
    << 1, 1, 1, TRUE, DEFAULT_CHUNKING_INTERVAL_MS >>,
    << 1, 2, 1, TRUE, DEFAULT_CHUNKING_INTERVAL_MS >>,
    << 1, 1, 2, FALSE, DEFAULT_CHUNKING_INTERVAL_MS >> }

\* the camera, region, tripwire and sensor lists of a scene_data, each as a
\* map from the uid of an entry to the rest of the entry
CameraLists ==
  { [c \in {"cam1"} |-> [resolution |-> 1]],
    [c \in {"cam1", "cam2"} |-> [resolution |-> 1]] }

RegionLists ==
  { [r \in {"r1"} |-> [name |-> "dock", points |-> 1]],
    [r \in {"r1"} |-> [name |-> "dock", points |-> 2]],
    [r \in {"r1", "r2"} |-> [name |-> "dock", points |-> 1]] }

TripwireLists ==
  { [t \in {"t1"} |-> [name |-> "gate", points |-> 1]],
    [t \in {"t1", "t2"} |-> [name |-> "gate", points |-> 1]] }

SensorLists ==
  { <<>>,
    [n \in {"n1"} |-> [name |-> "temp", points |-> 1]] }

\* the configurations of one scene
SceneDatas ==
  { [ uid |-> "s1", name |-> "hall", cameras |-> c, regions |-> r,
      tripwires |-> t, sensors |-> n, tracker_config |-> k,
      use_tracker |-> TRUE, output_lla |-> FALSE, map_corners_lla |-> "None",
      regulated_rate |-> 5, external_update_rate |-> 5 ] :
    c \in CameraLists, r \in RegionLists, t \in TripwireLists,
    n \in SensorLists, k \in TrackerConfigs }

\* event states that the event passes leave behind: a region with two
\* occupants of which one has just entered, a tripwire crossed by one object,
\* a sensor that holds a reading and the object that was in its area
OccupiedLive ==
  [ objects |-> [person |-> {"g1", "g2"}], entered |-> [person |-> {"g2"}],
    exited |-> [person |-> {}], when |-> 3,
    value |-> -1, lastValue |-> -1, lastWhen |-> -1 ]

CrossedLive ==
  [ objects |-> [person |-> {"g1"}], entered |-> [person |-> {}],
    exited |-> [person |-> {}], when |-> 2,
    value |-> -1, lastValue |-> -1, lastWhen |-> -1 ]

ReadingLive ==
  [ objects |-> [person |-> {"g1"}], entered |-> [person |-> {"g1"}],
    exited |-> [person |-> {}], when |-> 2,
    value |-> 21, lastValue |-> 20, lastWhen |-> 3 ]

RegionLives == { NoLive, OccupiedLive }

TripwireLives == { NoLive, CrossedLive }

SensorLives == { NoLive, ReadingLive }

\* the objects of a map with the event states the passes have left on them
WithLive(objs, lives) == [ uid \in DOMAIN objs |-> [objs[uid] EXCEPT !.live = lives[uid]] ]

\* A scene some time after Scene.deserialize built it: its regions, tripwires
\* and sensors carry the event state of the passes that have run since.
InitScene ==
  /\ \E scene_data \in SceneDatas :
       \E rl \in [DOMAIN scene_data.regions -> RegionLives] :
         \E tl \in [DOMAIN scene_data.tripwires -> TripwireLives] :
           \E sl \in [DOMAIN scene_data.sensors -> SensorLives] :
             current_scene =
               LET built == Aged(deserialize(scene_data))
               IN  [built EXCEPT
                      !.regions = WithLive(built.regions, rl),
                      !.tripwires = WithLive(built.tripwires, tl),
                      !.sensors = WithLive(built.sensors, sl)]
  /\ chain_data = <<>>
  /\ max_now = -1
  /\ NoPublisher
  /\ cache_manager = <<>>
  /\ fetched = <<>>
  /\ since_invalidate = -1
  /\ ChunkInit
  /\ last = NoOp

\* scene.updateScene(scene_data) on the scene
UpdateScene(scene_data) ==
  /\ current_scene' = updateScene(Aged(current_scene), scene_data)
  /\ last' = [op |-> "updateScene", scene_data |-> scene_data,
              trs_before |-> current_scene.trs]
  /\ UNCHANGED << chunkVars, cacheVars, publishVars, chain_data, max_now >>

NextScene == \E scene_data \in SceneDatas : UpdateScene(scene_data)

SpecScene == InitScene /\ [][NextScene]_vars

\* ------------------------------------------------- Scene: processing messages
\* A message is a record: id, frame_rate (None for a message without one),
\* when, and objects, the sequence of its (detection type, current objects)
\* pairs in the order of the message's dict.  The current objects of a pair are
\* what tracker.currentObjects(type) answers once the tracker has been given
\* the message's detections of that type.

Min(a, b) == IF a < b THEN a ELSE b

\* a frame rate update that takes the rate of every message that carries one
updateFrameRateLatest(scene, jdata) ==
  IF jdata.frame_rate # None
  THEN [scene EXCEPT !.ref_camera_frame_rate = jdata.frame_rate]
  ELSE scene

\* if 'frame_rate' in jdata: self.ref_camera_frame_rate = min(...) if ... else ...
updateFrameRate(scene, jdata) ==
  IF jdata.frame_rate # None
  THEN [scene EXCEPT
          !.ref_camera_frame_rate =
            IF @ # None THEN Min(jdata.frame_rate, @) ELSE jdata.frame_rate]
  ELSE scene

\* hasattr(camera, 'pose'): a Camera has a pose once its data holds one
hasPose(camera) == "translation" \in DOMAIN camera.data

\* Scene._finishProcessing: self.tracker.trackObjects(objects, ..., when,
\* [detectionType], ...), which the time-chunked facade refuses when
\* use_tracker is false, and then the event pass; w.submitted lists the
\* trackObjects calls that were accepted
finishProcessing(w, detectionType, when, curObjects) ==
  IF w.scene.trackerType = "time_chunked_intel_labs" /\ ~w.scene.use_tracker
  THEN [w EXCEPT !.returned = "NotImplementedError"]
  ELSE updateEvents(
         [w EXCEPT !.submitted = Append(@, [category |-> detectionType, when |-> when])],
         detectionType, when, curObjects)

\* the loop of processCameraData over jdata['objects'].items()
RECURSIVE processDetections(_, _, _)
processDetections(w, objects, when) ==
  IF objects = <<>> \/ w.returned = "NotImplementedError"
  THEN w
  ELSE processDetections(
         finishProcessing(w, Head(objects)[1], when, Head(objects)[2]),
         Tail(objects), when)

\* Scene.processCameraData
processCameraData(w, jdata) ==
  IF jdata.id \in DOMAIN w.scene.cameras
  THEN LET rated == [w EXCEPT !.scene = updateFrameRate(@, jdata)]
       IN  IF ~hasPose(rated.scene.cameras[jdata.id])
           THEN [rated EXCEPT !.returned = "True"]
           ELSE processDetections([rated EXCEPT !.returned = "True"],
                                  jdata.objects, jdata.when)
  ELSE [w EXCEPT !.returned = "False"]

\* Scene.processSceneData; jdata.both says that an object of the message
\* holds both 'lat_long_alt' and 'translation'
processSceneData(w, jdata, detectionType) ==
  LET rated == [w EXCEPT !.scene = updateFrameRate(@, jdata), !.returned = "True"]
  IN  IF jdata.both
      THEN rated
      ELSE finishProcessing(rated, detectionType, jdata.when, jdata.objects)

\* a processSensorData that drops only the readings older than the last one
processSensorDataUnlessOlder(w, jdata, when) ==
  IF jdata.id \notin DOMAIN w.scene.sensors
  THEN [w EXCEPT !.returned = "False"]
  ELSE LET sensor == w.scene.sensors[jdata.id].live
       IN  IF sensor.lastWhen # None /\ when < sensor.lastWhen
           THEN [w EXCEPT !.returned = "True"]
           ELSE [w EXCEPT
                   !.returned = "True",
                   !.scene.events = [NoEvents EXCEPT !.value = << jdata.id >>],
                   !.scene.sensors[jdata.id].live.value = jdata.value,
                   !.scene.sensors[jdata.id].live.lastValue = sensor.value,
                   !.scene.sensors[jdata.id].live.lastWhen = when]

\* Scene.processSensorData
processSensorData(w, jdata, when) ==
  IF jdata.id \notin DOMAIN w.scene.sensors
  THEN [w EXCEPT !.returned = "False"]
  ELSE LET sensor == w.scene.sensors[jdata.id].live
       IN  IF sensor.lastWhen # None /\ when <= sensor.lastWhen
           THEN [w EXCEPT !.returned = "True"]
           ELSE [w EXCEPT
                   !.returned = "True",
                   !.scene.events = [NoEvents EXCEPT !.value = << jdata.id >>],
                   !.scene.sensors[jdata.id].live.value = jdata.value,
                   !.scene.sensors[jdata.id].live.lastValue = sensor.value,
                   !.scene.sensors[jdata.id].live.lastWhen = when]

\* ------------------------------------------------ a scene processing messages
MaxTime == 4
MaxLag == 1

Gids == {"g1"}

\* the scene: two cameras of which cam2 has no pose yet, a region, a sensor
\* and a tripwire; with or without tracker, behind either facade
TickSceneData(tracker_config, use_tracker) ==
  [ uid |-> "s1", name |-> "hall",
    cameras |-> [c \in {"cam1", "cam2"} |->
                   IF c = "cam1" THEN [resolution |-> 1, translation |-> 1]
                                 ELSE [resolution |-> 1]],
    regions |-> [r \in {"r1"} |-> [name |-> "dock", points |-> 1]],
    tripwires |-> [t \in {"t1"} |-> [name |-> "gate", points |-> 1]],
    sensors |-> [n \in {"n1"} |-> [name |-> "temp", points |-> 1]],
    tracker_config |-> tracker_config, use_tracker |-> use_tracker,
    output_lla |-> FALSE, map_corners_lla |-> "None",
    regulated_rate |-> 1, external_update_rate |-> 1 ]

TickSceneDatas ==
  { TickSceneData(NoTrackerConfig, TRUE),
    TickSceneData(NoTrackerConfig, FALSE),
    TickSceneData(<< 1, 1, 1, TRUE, DEFAULT_CHUNKING_INTERVAL_MS >>, FALSE) }

\* what the tracker can hold of each object: g1 is outside, or in the region
\* and the sensor's area, or there and across the tripwire; g2 is in the region
StatesOf(g) ==
  IF g = "g1"
  THEN { [frameCount |-> f, within |-> p[1], crosses |-> p[2]] :
           f \in {3, 4},
           p \in { << {}, {} >>, << {"r1", "n1"}, {} >>, << {"r1", "n1"}, {"t1"} >> } }
  ELSE { [frameCount |-> 4, within |-> {"r1"}, crosses |-> {}] }

CurObjects ==
  UNION { { f \in [S -> UNION { StatesOf(g) : g \in Gids }] :
              \A g \in S : f[g] \in StatesOf(g) } : S \in SUBSET Gids }

\* the times a message can carry: messages that lag more are dropped
Times == { t \in 0..MaxTime : t >= max_now - MaxLag }

\* the messages of a camera with pose about what it sees
CameraMessages ==
  { [id |-> "cam1", frame_rate |-> None, when |-> t, objects |-> o] :
      t \in Times,
      o \in { << << "person", c >> >> : c \in CurObjects }
            \cup { << << "person", c >>, << "vehicle", <<>> >> >> :
                     c \in { x \in CurObjects : x = <<>> } } }

FrameRates == {None, 10, 30}

\* the messages of cameras with pose, without pose and unknown to the scene,
\* with and without frame rate, that saw nobody
RatedCameraMessages ==
  { [id |-> i, frame_rate |-> f, when |-> t, objects |-> o] :
      i \in {"cam1", "cam2", "cam9"}, f \in FrameRates, t \in Times,
      o \in { << << "person", <<>> >> >> } }

\* the messages of a child scene that holds nobody
SceneMessages ==
  { [frame_rate |-> f, when |-> t, objects |-> c, both |-> b] :
      f \in FrameRates, t \in Times, b \in BOOLEAN, c \in { <<>> } }

\* the readings of a sensor of the scene and of an unknown sensor
SensorMessages == { [id |-> i, value |-> v] : i \in {"n1", "n9"}, v \in {20, 21} }

NoChain == [regions |-> <<>>, publishedLocations |-> 0]

World ==
  [ scene |-> Aged(current_scene), chain_data |-> chain_data, max_now |-> max_now,
    returned |-> "None", submitted |-> <<>> ]

InitTick ==
  /\ \E scene_data \in TickSceneDatas : current_scene = Aged(deserialize(scene_data))
  /\ chain_data = [g \in Gids |-> NoChain]
  /\ max_now = -1
  /\ NoPublisher
  /\ cache_manager = <<>>
  /\ fetched = <<>>
  /\ since_invalidate = -1
  /\ ChunkInit
  /\ last = NoOp

\* scene.processCameraData(jdata, when=jdata.when)
ProcessCameraData(jdata) ==
  LET w == processCameraData(World, jdata)
  IN  /\ current_scene' = w.scene
      /\ chain_data' = w.chain_data
      /\ max_now' = w.max_now
      /\ last' = [op |-> "processCameraData", jdata |-> jdata, returned |-> w.returned]
      /\ UNCHANGED << chunkVars, cacheVars, publishVars >>

\* scene.processSceneData(jdata, child, cameraPose, "person", when=jdata.when)
ProcessSceneData(jdata) ==
  LET w == processSceneData(World, jdata, "person")
  IN  /\ current_scene' = w.scene
      /\ chain_data' = w.chain_data
      /\ max_now' = w.max_now
      /\ last' = [op |-> "processSceneData", jdata |-> jdata, returned |-> w.returned]
      /\ UNCHANGED << chunkVars, cacheVars, publishVars >>

\* scene.processSensorData(jdata, when)
ProcessSensorData(jdata, when) ==
  LET w == processSensorData(World, jdata, when)
  IN  /\ current_scene' = w.scene
      /\ chain_data' = w.chain_data
      /\ last' = [op |-> "processSensorData", jdata |-> jdata,
                  when |-> when, returned |-> w.returned]
      /\ UNCHANGED << max_now, chunkVars, cacheVars, publishVars >>

NextTick == \E jdata \in CameraMessages : ProcessCameraData(jdata)

SpecTick == InitTick /\ [][NextTick]_vars

NextRate ==
  \/ \E jdata \in RatedCameraMessages : ProcessCameraData(jdata)
  \/ \E jdata \in SceneMessages : ProcessSceneData(jdata)

SpecRate == InitTick /\ [][NextRate]_vars

NextSensor ==
  \E jdata \in SensorMessages, when \in 0..MaxTime : ProcessSensorData(jdata, when)

SpecSensor == InitTick /\ [][NextSensor]_vars

\* ------------------------------------------------------------- CacheManager

\* The CacheManager object is a record of its attributes.
\* cached_scenes_by_uid is a map from uid to Scene object, and by_uid_is_None
\* says that the attribute holds None instead; the indexes by camera and by
\* sensor hold, for each id, the uid of the Scene object they refer to;
\* cache_refreshed says that the attribute _cache_refreshed exists.
\* get_scenes is history: "none" until the operation under way calls
\* data_source.getScenes(), then "failed" or "loaded" after the result.

\* a getScenes() result without `results`
NoResults == [has_results |-> FALSE, results |-> <<>>]

\* f with every key of keys set to value
SetAll(f, keys, value) ==
  [ k \in DOMAIN f \cup keys |-> IF k \in keys THEN value ELSE f[k] ]

\* CacheManager._refreshCameras: for a camera with stashed parameters
\* `self.camera_parameters[uid].get('distortion')[dist_coeff]` raises TypeError
\* where no distortion is stashed; what it sends to the data source changes
\* nothing in the cache
refreshCameras(self, scene_data) ==
  IF \E c \in DOMAIN scene_data.cameras :
       /\ c \in DOMAIN self.camera_parameters
       /\ self.camera_parameters[c].distortion = None
  THEN "TypeError"
  ELSE "None"

\* the loop of refreshScenes over found, from its i-th entry on
RECURSIVE RefreshFound(_, _, _)
RefreshFound(self, found, i) ==
  IF i > Len(found)
  THEN self
  ELSE IF refreshCameras(self, found[i]) # "None"
  THEN [self EXCEPT !.raised = refreshCameras(self, found[i]), !.get_scenes = "raised"]
  ELSE LET scene_data ==
             IF self.tracker_config_data # NoTrackerConfig
             THEN [found[i] EXCEPT !.tracker_config = self.tracker_config_data]
             ELSE found[i]
           uid == scene_data.uid
           scene ==
             IF uid \notin DOMAIN self.cached_scenes_by_uid
             THEN deserialize(scene_data)
             ELSE updateScene(self.cached_scenes_by_uid[uid], scene_data)
       IN  RefreshFound(
             [self EXCEPT
                !.cached_scenes_by_cameraID = SetAll(@, DOMAIN scene.cameras, uid),
                !.cached_scenes_by_sensorID = SetAll(@, DOMAIN scene.sensors, uid),
                !.cached_scenes_by_uid = SetAll(@, {uid}, scene)],
             found, i + 1)

\* a start of refreshScenes that leaves the two indexes as they are
keepIndexes(self) == [self EXCEPT !.by_uid_is_None = FALSE]

\* the start of refreshScenes: cached_scenes_by_uid = {} where it is None, and
\* _cached_scenes_by_cameraID = {} and _cached_scenes_by_sensorID = {}
clearIndexes(self) ==
  [self EXCEPT
     !.by_uid_is_None = FALSE,
     !.cached_scenes_by_cameraID = <<>>,
     !.cached_scenes_by_sensorID = <<>>]

\* the end of refreshScenes, unless its loop has raised
timestamped(self) ==
  IF self.raised # "None"
  THEN self
  ELSE [self EXCEPT !.cache_refreshed = TRUE, !.get_scenes = "loaded"]

\* CacheManager.refreshScenes, where getScenes() returns result
refreshScenes(self, result) ==
  LET cleared == clearIndexes(self)
  IN  IF ~result.has_results
      THEN [cleared EXCEPT !.get_scenes = "failed"]
      ELSE LET found == result.results
               new == { found[i].uid : i \in DOMAIN found }
               kept == [ uid \in DOMAIN cleared.cached_scenes_by_uid \cap new |->
                           cleared.cached_scenes_by_uid[uid] ]
           IN  timestamped(
                 RefreshFound([cleared EXCEPT !.cached_scenes_by_uid = kept], found, 1))

\* a checkRefresh that refreshes only while no refresh has completed
checkRefreshUnlessRefreshed(self, result) ==
  IF ~self.cache_refreshed THEN refreshScenes(self, result) ELSE self

\* CacheManager.checkRefresh, where getScenes() would return result
checkRefresh(self, result) ==
  IF self.by_uid_is_None \/ ~self.cache_refreshed
  THEN refreshScenes(self, result)
  ELSE self

\* CacheManager.invalidate
invalidate(self) ==
  [self EXCEPT !.by_uid_is_None = TRUE, !.cached_scenes_by_uid = <<>>]

\* the value of d.get(key, None), as the set of the uids of the scenes returned
GetOrNone(d, key) == IF key \in DOMAIN d THEN {d[key]} ELSE {}

\* what each lookup returns after its checkRefresh
Answer(self, kind, key) ==
  CASE kind = "allScenes" -> DOMAIN self.cached_scenes_by_uid
    [] kind = "sceneWithID" -> {key} \cap DOMAIN self.cached_scenes_by_uid
    [] kind = "sceneWithCameraID" -> GetOrNone(self.cached_scenes_by_cameraID, key)
    [] kind = "sceneWithSensorID" -> GetOrNone(self.cached_scenes_by_sensorID, key)
    [] kind = "sceneWithRemoteChildID" ->
         GetOrNone(self.cached_child_transforms_by_uid, key)

\* CacheManager.__init__ up to its call of refreshScenes
NewCacheManager(tracker_config_data) ==
  [ cached_child_transforms_by_uid |-> <<>>,
    tracker_config_data |-> tracker_config_data,
    by_uid_is_None |-> FALSE,
    cached_scenes_by_uid |-> <<>>,
    cached_scenes_by_cameraID |-> <<>>,
    cached_scenes_by_sensorID |-> <<>>,
    cache_refreshed |-> FALSE,
    get_scenes |-> "none",
    camera_parameters |-> <<>>,
    raised |-> "None" ]

\* the cache manager as an operation finds it: no scene of it is new and
\* getScenes() has not been called
AgedCache(self) ==
  [self EXCEPT
     !.get_scenes = "none",
     !.raised = "None",
     !.cached_scenes_by_uid = [ uid \in DOMAIN @ |-> Aged(@[uid]) ]]

\* ------------------------------------------------- the scene cache in use

\* the scenes of the data source, in the configurations it takes
CachedSceneDatas ==
  { [ uid |-> "s1", name |-> "hall", cameras |-> c,
      regions |-> <<>>, tripwires |-> <<>>, sensors |-> n,
      tracker_config |-> NoTrackerConfig,
      use_tracker |-> TRUE, output_lla |-> FALSE, map_corners_lla |-> "None",
      regulated_rate |-> 5, external_update_rate |-> 5 ] :
    c \in CameraLists, n \in SensorLists }
  \cup
  { [ uid |-> "s2", name |-> "yard",
      cameras |-> [c \in {"cam2"} |-> [resolution |-> 1]],
      regions |-> <<>>, tripwires |-> <<>>, sensors |-> <<>>,
      tracker_config |-> NoTrackerConfig,
      use_tracker |-> TRUE, output_lla |-> FALSE, map_corners_lla |-> "None",
      regulated_rate |-> 5, external_update_rate |-> 5 ] }

\* what getScenes() returns: no results, or the list of the scenes
GetScenesResults ==
  { NoResults, [has_results |-> TRUE, results |-> <<>>] }
  \cup { [has_results |-> TRUE, results |-> << a >>] : a \in CachedSceneDatas }
  \cup { [has_results |-> TRUE, results |-> << a, b >>] :
           a \in { x \in CachedSceneDatas : x.uid = "s1" },
           b \in { x \in CachedSceneDatas : x.uid = "s2" } }

\* the tracker_config_data of the controller: none, or the list of its values
TrackerConfigDatas ==
  { NoTrackerConfig, << 2, 1, 1, TRUE, DEFAULT_CHUNKING_INTERVAL_MS >> }

\* the lookups and their arguments
Lookups ==
  { << "allScenes", "" >> }
  \cup { << "sceneWithID", k >> : k \in {"s1", "s2"} }
  \cup { << "sceneWithCameraID", k >> : k \in {"cam1", "cam2"} }
  \cup { << "sceneWithSensorID", k >> : k \in {"n1"} }
  \cup { << "sceneWithRemoteChildID", k >> : k \in {"child1"} }

\* the result of the last getScenes() that had results
Fetched(self, result, before) ==
  IF self.get_scenes = "loaded" THEN result ELSE before

\* the state after CacheManager.__init__
InitCache ==
  /\ \E tracker_config_data \in TrackerConfigDatas, result \in GetScenesResults :
       /\ cache_manager = refreshScenes(NewCacheManager(tracker_config_data), result)
       /\ fetched = Fetched(cache_manager, result, NoResults)
  /\ since_invalidate = -1
  /\ current_scene = <<>>
  /\ chain_data = <<>>
  /\ max_now = -1
  /\ NoPublisher
  /\ ChunkInit
  /\ last = NoOp

\* cache_manager.invalidate()
Invalidate ==
  /\ cache_manager' = invalidate(AgedCache(cache_manager))
  /\ since_invalidate' = 0
  /\ last' = [op |-> "invalidate", kind |-> "", key |-> "", answer |-> {}]
  /\ UNCHANGED << fetched, sceneVars, chunkVars, publishVars >>

\* one of allScenes(), sceneWithID(key), sceneWithCameraID(key),
\* sceneWithSensorID(key), sceneWithRemoteChildID(key)
Lookup(kind, key, result) ==
  /\ cache_manager' = checkRefresh(AgedCache(cache_manager), result)
  /\ fetched' = Fetched(cache_manager', result, fetched)
  /\ since_invalidate' =
       IF since_invalidate \in {0, 1} THEN since_invalidate + 1 ELSE since_invalidate
  /\ last' = [op |-> "lookup", kind |-> kind, key |-> key,
              answer |-> Answer(cache_manager', kind, key)]
  /\ UNCHANGED << sceneVars, chunkVars, publishVars >>

\* SceneController.updateSubscriptions up to the scenes it reads:
\* cache_manager.invalidate() and then cache_manager.allScenes()
UpdateSubscriptions(result) ==
  /\ cache_manager' = checkRefresh(invalidate(AgedCache(cache_manager)), result)
  /\ fetched' = Fetched(cache_manager', result, fetched)
  /\ since_invalidate' = 1
  /\ last' = [op |-> "updateSubscriptions", kind |-> "allScenes", key |-> "",
              answer |-> Answer(cache_manager', "allScenes", "")]
  /\ UNCHANGED << sceneVars, chunkVars, publishVars >>

NextCache ==
  \/ Invalidate
  \/ \E lookup \in Lookups, result \in GetScenesResults :
       Lookup(lookup[1], lookup[2], result)
  \/ \E result \in GetScenesResults : UpdateSubscriptions(result)

SpecCache == InitCache /\ [][NextCache]_vars

\* ------------------------------------------------- time chunking: claims

Range(seq) == { seq[i] : i \in DOMAIN seq }

UniqueKeys(d) == \A i, j \in DOMAIN d : d[i].key = d[j].key => i = j

KeyOf(e) == << e.category, e.camera_id >>

\* C1: the buffer never holds two tuples for one (category, cameraID); right
\* after a trackObjects call that buffered, each of its keys holds the call's
\* tuple and every other key holds what it held before the call.
C1_OneTuplePerKey ==
  /\ UniqueKeys(buffer_data)
  /\ \A i \in DOMAIN buffer_data : UniqueKeys(buffer_data[i].val)
  /\ (last.op = "trackObjects" /\ last.buffered) =>
       \A c \in Categories, k \in CameraIDs :
         Buffered(buffer_data, c, k) =
           IF k = last.camera_id /\ c \in Range(last.categories)
           THEN [camera_id |-> k, frame |-> last.frame]
           ELSE Buffered(last.before, c, k)

\* C1's case: add overwrote an unsent tuple while another key held one too
C1_Witness ==
  /\ last.op = "trackObjects"
  /\ last.buffered
  /\ \E c \in Range(last.categories) :
       Buffered(last.before, c, last.camera_id) # NoTuple
  /\ \E c \in Categories, k \in CameraIDs :
       /\ ~(k = last.camera_id /\ c \in Range(last.categories))
       /\ Buffered(last.before, c, k) # NoTuple

PassPutsOf(cat) == SelectSeq(pass_puts, LAMBDA e : e.category = cat)

\* the categories the current pass has finished with
PassDone(s) == ~(dpc = "put" /\ run_category = s.category)

\* C2: in a dispatcher pass each category of the popped buffer is visited
\* once; a category whose queue was non-empty at the check gets the
\* tracker_busy counter incremented once and none of its tuples enqueued, in
\* this pass or later; a category whose queue was empty gets exactly one put
\* per buffered camera and no increment.
C2_BusyDropsElseOnePerCamera ==
  /\ \A s, t \in pass_seen : s.category = t.category => s = t
  /\ \A c \in Categories :
       dropped[c] = dropped_taken[c] +
         (IF \E s \in pass_seen : s.category = c /\ s.queue_len > 0 THEN 1 ELSE 0)
  /\ \A s \in pass_seen :
       IF s.queue_len > 0
       THEN PassPutsOf(s.category) = <<>>
       ELSE PassDone(s) =>
              /\ Len(PassPutsOf(s.category)) = Cardinality(s.cameras)
              /\ { e.camera_id : e \in Range(PassPutsOf(s.category)) } = s.cameras
  /\ \A i \in DOMAIN pass_puts :
       \E s \in pass_seen : s.category = pass_puts[i].category
  /\ \A i \in DOMAIN enqueued : enqueued[i] \notin discarded

\* C2's case: one pass found a busy category, dropped its tuples, and
\* enqueued both cameras of another category
C2_Witness ==
  /\ \E s \in pass_seen : s.queue_len > 0 /\ s.cameras # {}
  /\ \E s \in pass_seen :
       s.queue_len = 0 /\ PassDone(s) /\ s.cameras = CameraIDs
  /\ discarded # {}

\* the frame last admitted for e's key among the admissions adm
LastAdmitted(adm, e) ==
  CHOOSE f \in { a.frame : a \in { b \in adm : KeyOf(b) = KeyOf(e) } } :
    \A a \in adm : KeyOf(a) = KeyOf(e) => a.frame <= f

\* C3: per (category, cameraID), a tuple is put on the worker queue at most
\* once, a pass puts at most one tuple, the tuple it puts is the last one
\* admitted for the key before the pass took the buffer, and the puts of a
\* key follow the order of admission.
C3_LatestOncePerPass ==
  /\ \A i, j \in DOMAIN enqueued : enqueued[i] = enqueued[j] => i = j
  /\ \A i \in DOMAIN enqueued : enqueued[i] \in admissions
  /\ \A i, j \in DOMAIN pass_puts :
       KeyOf(pass_puts[i]) = KeyOf(pass_puts[j]) => i = j
  /\ \A i \in DOMAIN pass_puts :
       /\ pass_puts[i] \in taken
       /\ pass_puts[i].frame = LastAdmitted(taken, pass_puts[i])
  /\ \A i, j \in DOMAIN enqueued :
       (i < j /\ KeyOf(enqueued[i]) = KeyOf(enqueued[j]))
         => enqueued[i].frame < enqueued[j].frame

\* C3's case: a key's older tuple was overwritten and never enqueued, its
\* newer one was, and a later pass enqueued a third one of that key
C3_Witness ==
  \E i, j \in DOMAIN enqueued :
    /\ i < j
    /\ KeyOf(enqueued[i]) = KeyOf(enqueued[j])
    /\ \E a \in admissions :
         /\ KeyOf(a) = KeyOf(enqueued[i])
         /\ a.frame < enqueued[i].frame
         /\ a \notin Range(enqueued)
         /\ a \notin discarded

\* ------------------------------------------------------------ scene: claims

\* the facade a tracker_config list selects
FacadeOf(tracker_config) ==
  IF tracker_config[4] THEN "time_chunked_intel_labs" ELSE "intel_labs"

\* the facade or one of the three times of the list differs from the scene's
ConfigDiffers(scene, tracker_config) ==
  /\ tracker_config # NoTrackerConfig
  /\ \/ FacadeOf(tracker_config) # scene.trackerType
     \/ tracker_config[1] # scene.max_unreliable_time
     \/ tracker_config[2] # scene.non_measurement_time_dynamic
     \/ tracker_config[3] # scene.non_measurement_time_static

\* C8: updateScene reconstructs the scene's tracker if and only if the facade
\* mode or one of max_unreliable_time, non_measurement_time_dynamic,
\* non_measurement_time_static of the new configuration differs from the
\* scene's; a reconstructed tracker is of the facade the new configuration
\* selects.
C8_ReconstructsIffConfigDiffers ==
  [][ last'.op = "updateScene" =>
        /\ current_scene'.tracker.isNew <=>
             ConfigDiffers(current_scene, last'.scene_data.tracker_config)
        /\ current_scene'.tracker.isNew =>
             current_scene'.tracker.class =
               FacadeOf(last'.scene_data.tracker_config) ]_vars

\* C9: after updateScene the keys of the region map and of the sensor map are
\* the uids of the new configuration; a region or sensor whose uid was present
\* is the same object with its event state unchanged, and one whose uid was
\* not present is a new object.
C9_RegionsUpsertInPlace ==
  [][ last'.op = "updateScene" =>
        /\ DOMAIN current_scene'.regions = DOMAIN last'.scene_data.regions
        /\ DOMAIN current_scene'.sensors = DOMAIN last'.scene_data.sensors
        /\ \A uid \in DOMAIN current_scene'.regions :
             IF uid \in DOMAIN current_scene.regions
             THEN /\ ~current_scene'.regions[uid].isNew
                  /\ current_scene'.regions[uid].live = current_scene.regions[uid].live
             ELSE current_scene'.regions[uid].isNew
        /\ \A uid \in DOMAIN current_scene'.sensors :
             IF uid \in DOMAIN current_scene.sensors
             THEN /\ ~current_scene'.sensors[uid].isNew
                  /\ current_scene'.sensors[uid].live = current_scene.sensors[uid].live
             ELSE current_scene'.sensors[uid].isNew ]_vars

\* C9's case: an update kept an occupied region, which it moved, and a sensor
\* with a reading, and constructed another region
C9_Witness ==
  /\ last.op = "updateScene"
  /\ \E uid \in DOMAIN current_scene.regions :
       /\ ~current_scene.regions[uid].isNew
       /\ current_scene.regions[uid].live = OccupiedLive
       /\ current_scene.regions[uid].points = 2
  /\ \E uid \in DOMAIN current_scene.sensors :
       /\ ~current_scene.sensors[uid].isNew
       /\ current_scene.sensors[uid].live = ReadingLive
  /\ \E uid \in DOMAIN current_scene.tripwires : current_scene.tripwires[uid].isNew

\* C10: after updateScene the keys of the tripwire map and of the camera map
\* are the uids of the new configuration, and a tripwire whose uid was present
\* has the objects map and the `when` timestamp it had before.
C10_TripwiresKeepLiveState ==
  [][ last'.op = "updateScene" =>
        /\ DOMAIN current_scene'.tripwires = DOMAIN last'.scene_data.tripwires
        /\ DOMAIN current_scene'.cameras = DOMAIN last'.scene_data.cameras
        /\ \A uid \in DOMAIN current_scene'.tripwires \cap DOMAIN current_scene.tripwires :
             /\ current_scene'.tripwires[uid].live.objects =
                  current_scene.tripwires[uid].live.objects
             /\ current_scene'.tripwires[uid].live.when =
                  current_scene.tripwires[uid].live.when ]_vars

\* ------------------------------------------------------ scene cache: claims

\* the operation under way called getScenes()
Refreshed(self) == self.get_scenes # "none"

\* C4 (as amended): the first lookup after invalidate() refreshes; a later
\* lookup does not refresh again before the next invalidate() once a refresh
\* has completed since the construction, and while none has completed every
\* lookup refreshes.
C4_FirstLookupRefreshes ==
  [][ last'.op = "lookup" =>
        /\ since_invalidate = 0 => Refreshed(cache_manager')
        /\ (since_invalidate >= 1 /\ cache_manager.cache_refreshed) =>
             ~Refreshed(cache_manager')
        /\ ~cache_manager.cache_refreshed => Refreshed(cache_manager') ]_vars

\* C4's case: the second lookup after an invalidate(), which the first lookup
\* answered with a refresh that loaded a scene, did not refresh
C4_Witness ==
  /\ last.op = "lookup"
  /\ since_invalidate = 2
  /\ ~Refreshed(cache_manager)
  /\ cache_manager.cache_refreshed
  /\ fetched.has_results
  /\ DOMAIN cache_manager.cached_scenes_by_uid # {}

\* C4 (as stated): the first lookup after invalidate() refreshes, and later
\* lookups do not refresh again until the next invalidate().
C4_LaterLookupsNeverRefresh ==
  [][ last'.op = "lookup" =>
        /\ since_invalidate = 0 => Refreshed(cache_manager')
        /\ since_invalidate >= 1 => ~Refreshed(cache_manager') ]_vars

\* the scenes of a map as the next operation finds them
AgedScenes(scenes) == [ uid \in DOMAIN scenes |-> Aged(scenes[uid]) ]

\* C5: a lookup whose refreshScenes gets a result without `results` leaves
\* the by-uid, the by-camera and the by-sensor index as they were, so every
\* camera and sensor that had a scene still has it.
C5_FailedRefreshIsNoOp ==
  [][ (last'.op = "lookup" /\ cache_manager'.get_scenes = "failed") =>
        /\ cache_manager'.cached_scenes_by_uid =
             AgedScenes(cache_manager.cached_scenes_by_uid)
        /\ cache_manager'.cached_scenes_by_cameraID =
             cache_manager.cached_scenes_by_cameraID
        /\ cache_manager'.cached_scenes_by_sensorID =
             cache_manager.cached_scenes_by_sensorID ]_vars

\* C6: the lookup that follows an operation whose refresh failed refreshes
\* again.
C6_LookupRetriesFailedRefresh ==
  [][ (cache_manager.get_scenes = "failed" /\ last'.op = "lookup") =>
        Refreshed(cache_manager') ]_vars

\* C7: a refresh that fetches what the last refresh with results fetched
\* leaves every scene the same object with the same tracker object.
C7_UnchangedRefreshKeepsTrackers ==
  [][ (cache_manager'.get_scenes = "loaded" /\ fetched' = fetched) =>
        \A uid \in DOMAIN cache_manager'.cached_scenes_by_uid :
          /\ ~cache_manager'.cached_scenes_by_uid[uid].isNew
          /\ ~cache_manager'.cached_scenes_by_uid[uid].tracker.isNew ]_vars

\* ---------------------------------------------- SceneController: publishing
\* The controller is a record of its cache manager, its regulate_cache and
\* the messages that the handler under way has published so far.  A tracked
\* object is known by its gid and a detection list holds one entry per
\* object.  The per-camera rates of regulate_cache are left out.

\* 1/rate seconds, in half seconds
Period(rate) == 2 \div rate

\* SceneController.shouldPublish
shouldPublish(last_time, now, max_delay) ==
  last_time = None \/ now - last_time >= max_delay

\* buildDetectionsList: one detection per object
buildDetectionsList(objects) == [ i \in DOMAIN objects |-> [id |-> objects[i]] ]

\* self.pubsub.publish(topic, jstr), the topic formatted from its parts
Publish(self, topic, scene_id, thing_type, payload) ==
  [self EXCEPT !.published =
     Append(@, [topic |-> topic, scene_id |-> scene_id, thing_type |-> thing_type,
                payload |-> payload])]

SceneOf(self, uid) == self.cache_manager.cached_scenes_by_uid[uid]

WithScene(self, uid, scene) ==
  [self EXCEPT !.cache_manager.cached_scenes_by_uid[uid] = scene]

\* SceneController.publishExternalDetections
publishExternalDetections(self, uid, otype, jstr, now) ==
  LET scene == SceneOf(self, uid)
  IN  IF shouldPublish(MapGet(scene.last_published_detection, otype, None), now,
                       Period(scene.external_update_rate))
      THEN Publish(
             WithScene(self, uid,
                       [scene EXCEPT !.last_published_detection = MapSet(@, otype, now)]),
             "external", uid, otype, jstr)
      ELSE self

\* SceneController.publishSceneDetections
publishSceneDetections(self, uid, objects, otype, now) ==
  LET scene == SceneOf(self, uid)
      detections == buildDetectionsList(objects)
      olen == Len(detections)
      cid == << scene.name, otype >>
  IN  IF olen > 0 \/ cid \notin DOMAIN scene.lastPubCount \/ scene.lastPubCount[cid] > 0
      THEN LET sent == publishExternalDetections(
                         Publish(self, "scene", uid, otype, detections),
                         uid, otype, detections, now)
           IN  WithScene(sent, uid,
                         [SceneOf(sent, uid) EXCEPT !.lastPubCount = MapSet(@, cid, olen)])
      ELSE self

\* the objects of all the cached categories, in the order of the dict
RECURSIVE AllCached(_)
AllCached(d) == IF d = <<>> THEN <<>> ELSE Head(d).val \o AllCached(Tail(d))

\* SceneController.publishRegulatedDetections
publishRegulatedDetections(self, uid, objects, otype, now) ==
  LET scene_obj == SceneOf(self, uid)
      created == IF uid \in DOMAIN self.regulate_cache
                 THEN self.regulate_cache[uid]
                 ELSE [objects |-> <<>>, last |-> None]
      scene == [created EXCEPT !.objects = DictSet(@, otype, buildDetectionsList(objects))]
  IN  IF shouldPublish(scene.last, now, Period(scene_obj.regulated_rate))
      THEN Publish(
             [self EXCEPT !.regulate_cache = MapSet(@, uid, [scene EXCEPT !.last = now])],
             "regulated", uid, "", AllCached(scene.objects))
      ELSE [self EXCEPT !.regulate_cache = MapSet(@, uid, scene)]

\* SceneController.publishRegionDetections, from the first of rnames on;
\* chains is the chain data of the tracked objects
RECURSIVE publishRegionDetections(_, _, _, _, _, _)
publishRegionDetections(self, uid, rnames, objects, otype, chains) ==
  IF rnames = <<>>
  THEN self
  ELSE LET scene == SceneOf(self, uid)
           rname == Head(rnames)
           robjects == SelectSeq(objects,
                         LAMBDA g : g \in DOMAIN chains /\ rname \in DOMAIN chains[g].regions)
           detections == buildDetectionsList(robjects)
           olen == Len(detections)
           rid == << scene.name, rname, otype >>
           sent ==
             IF olen > 0 \/ rid \notin DOMAIN scene.lastPubCount \/ scene.lastPubCount[rid] > 0
             THEN WithScene(Publish(self, "region", uid, << rname, otype >>, detections), uid,
                            [scene EXCEPT !.lastPubCount = MapSet(@, rid, olen)])
             ELSE self
       IN  publishRegionDetections(sent, uid, Tail(rnames), objects, otype, chains)

\* SceneController.publishDetections
publishDetections(self, uid, objects, otype, now, chains) ==
  LET scene == SceneOf(self, uid)
      counted == IF "lastPubCount" \in DOMAIN scene
                 THEN scene
                 ELSE MapSet(scene, "lastPubCount", <<>>)
      timed == IF "last_published_detection" \in DOMAIN counted
               THEN counted
               ELSE MapSet(counted, "last_published_detection", <<>>)
      s1 == publishSceneDetections(WithScene(self, uid, timed), uid, objects, otype, now)
      s2 == publishRegulatedDetections(s1, uid, objects, otype, now)
  IN  publishRegionDetections(s2, uid, KeysInOrder(SceneOf(s2, uid).regions),
                              objects, otype, chains)

\* the loop of handleMovingObjectMessage over detection_types; tracked holds,
\* per detection type, scene.tracker.currentObjects(detection_type)
RECURSIVE publishEach(_, _, _, _, _)
publishEach(self, uid, tracked, now, chains) ==
  IF tracked = <<>>
  THEN self
  ELSE publishEach(
         publishDetections(self, uid, Head(tracked)[2], Head(tracked)[1], now, chains),
         uid, Tail(tracked), now, chains)

\* SceneController.handleMovingObjectMessage for a camera's message that is
\* on time and that its scene processes with success, where getScenes() would
\* return result.  What the scene does with the message is followed in
\* SpecTick; the scenes here stage no events, so publishEvents has nothing to
\* publish.
handleMovingObjectMessage(self, camera_id, tracked, now, result, chains) ==
  LET looked == [self EXCEPT !.cache_manager = checkRefresh(@, result)]
      sender == GetOrNone(looked.cache_manager.cached_scenes_by_cameraID, camera_id)
  IN  IF sender = {}
      THEN looked
      ELSE publishEach(looked, CHOOSE uid \in sender : TRUE, tracked, now, chains)

\* `scene not in self.scenes` of updateRegulateCache: scene is a key of
\* regulate_cache, a uid, and self.scenes are the Scene objects of
\* allScenes(), none of which equals a string
InScenes(uid, scenes) == FALSE

\* SceneController.updateRegulateCache
updateRegulateCache(self) ==
  LET scenes == { SceneOf(self, uid) : uid \in DOMAIN self.cache_manager.cached_scenes_by_uid }
      kept == { uid \in DOMAIN self.regulate_cache : InScenes(uid, scenes) }
  IN  [self EXCEPT !.regulate_cache = [ uid \in kept |-> self.regulate_cache[uid] ]]

\* SceneController.handleDatabaseMessage for the command "update":
\* updateSubscriptions, then updateRegulateCache
handleDatabaseMessage(self, result) ==
  updateRegulateCache(
    [self EXCEPT !.cache_manager = checkRefresh(invalidate(@), result)])

\* ------------------------------------------------- a controller publishing
MaxClock == 3

\* the scenes of the data source: s1 with a region, at 1 Hz regulated and 2 Hz
\* external, and s2
PublishResult ==
  [ has_results |-> TRUE,
    results |->
      << [ uid |-> "s1", name |-> "hall",
           cameras |-> [c \in {"cam1"} |-> [resolution |-> 1]],
           regions |-> [r \in {"r1"} |-> [name |-> "dock", points |-> 1]],
           tripwires |-> <<>>, sensors |-> <<>>,
           tracker_config |-> NoTrackerConfig,
           use_tracker |-> TRUE, output_lla |-> FALSE, map_corners_lla |-> "None",
           regulated_rate |-> 1, external_update_rate |-> 2 ],
         [ uid |-> "s2", name |-> "yard",
           cameras |-> [c \in {"cam2"} |-> [resolution |-> 1]],
           regions |-> <<>>, tripwires |-> <<>>, sensors |-> <<>>,
           tracker_config |-> NoTrackerConfig,
           use_tracker |-> TRUE, output_lla |-> FALSE, map_corners_lla |-> "None",
           regulated_rate |-> 1, external_update_rate |-> 2 ] >> ]

\* what a camera's message leaves the tracker with, per detection type
TrackedBy(camera_id) ==
  IF camera_id = "cam1"
  THEN { << << "person", <<>> >> >>, << << "person", << "p1" >> >> >>,
         << << "vehicle", << "v1" >> >> >> }
  ELSE { << << "person", << "q1" >> >> >> }

Controller ==
  [ cache_manager |-> AgedCache(cache_manager), regulate_cache |-> regulate_cache,
    published |-> <<>> ]

\* the history after a tick of scene uid for otype with detections, in which
\* published was published
Recorded(history, uid, otype, detections, published, now) ==
  LET sent(topic, thing_type) ==
        \E i \in DOMAIN published :
          /\ published[i].topic = topic
          /\ published[i].scene_id = uid
          /\ published[i].thing_type = thing_type
      at1 == IF sent("regulated", "")
             THEN MapSet(history.at, << "regulated", uid, "" >>, now)
             ELSE history.at
      at2 == IF sent("external", otype)
             THEN MapSet(at1, << "external", uid, otype >>, now)
             ELSE at1
      trail == IF detections # <<>>
               THEN IF sent("scene", otype)
                    THEN MapSet(history.trail, << uid, otype >>, "nonempty")
                    ELSE history.trail
               ELSE IF << uid, otype >> \in DOMAIN history.trail
                    THEN MapSet(history.trail, << uid, otype >>, "emptied")
                    ELSE history.trail
  IN  [ at |-> at2, trail |-> trail,
        latest |-> MapSet(history.latest, uid,
                          DictSet(MapGet(history.latest, uid, <<>>), otype, detections)) ]

InitPublish ==
  /\ cache_manager = AgedCache(refreshScenes(NewCacheManager(NoTrackerConfig), PublishResult))
  /\ fetched = PublishResult
  /\ since_invalidate = -1
  /\ regulate_cache = <<>>
  /\ clock = 0
  /\ pubs = [at |-> <<>>, trail |-> <<>>, latest |-> <<>>]
  /\ controller = <<>>
  /\ metrics_dropped = 0
  /\ NoSubscriptions
  /\ current_scene = <<>>
  /\ chain_data = <<>>
  /\ max_now = -1
  /\ ChunkInit
  /\ last = NoOp

\* a message of camera_id with one detection type, handled at time now
HandleMovingObjectMessage(camera_id, tracked, now) ==
  \E self \in { handleMovingObjectMessage(Controller, camera_id, tracked, now,
                                           PublishResult, chain_data) } :
  LET sender == GetOrNone(self.cache_manager.cached_scenes_by_cameraID, camera_id)
      uid == IF sender = {} THEN "None" ELSE CHOOSE u \in sender : TRUE
  IN  /\ cache_manager' = self.cache_manager
      /\ regulate_cache' = self.regulate_cache
      /\ clock' = now
      /\ pubs' = IF sender = {}
                 THEN pubs
                 ELSE Recorded(pubs, uid, tracked[1][1], buildDetectionsList(tracked[1][2]),
                               self.published, now)
      /\ last' = [op |-> "handleMovingObjectMessage", scene_id |-> uid,
                  thing_type |-> tracked[1][1],
                  detections |-> buildDetectionsList(tracked[1][2]),
                  published |-> self.published]
      /\ UNCHANGED << fetched, since_invalidate, sceneVars, chunkVars, controller, metrics_dropped, subscribeVars >>

\* a database "update" notification, handled at time now
HandleDatabaseMessage(now) ==
  \E self \in { handleDatabaseMessage(Controller, PublishResult) } :
      /\ cache_manager' = self.cache_manager
      /\ regulate_cache' = self.regulate_cache
      /\ clock' = now
      /\ last' = [op |-> "handleDatabaseMessage"]
      /\ UNCHANGED << pubs, fetched, since_invalidate, sceneVars, chunkVars, controller, metrics_dropped, subscribeVars >>

\* the times at which the next message can be handled
Nows == { t \in clock..(clock + 1) : t <= MaxClock }

NextPublish ==
  \/ \E camera_id \in {"cam1", "cam9"}, now \in Nows :
       \E tracked \in TrackedBy(camera_id) :
         HandleMovingObjectMessage(camera_id, tracked, now)
  \/ \E now \in Nows : HandleDatabaseMessage(now)

SpecPublish == InitPublish /\ [][NextPublish]_vars

\* ------------------------------------------------- claims about event passes
\* the (region key, detection type, gid) of every occupant a region holds
Occupants ==
  { << key, dt, g >> \in
      UNION { UNION { { << k2, d2, g2 >> : g2 \in current_scene.regions[k2].live.objects[d2] } :
                        d2 \in DOMAIN current_scene.regions[k2].live.objects } :
                k2 \in DOMAIN current_scene.regions } : TRUE }

\* the last operation was an event pass that ran to its end
PassRan ==
  /\ last.op \in {"processCameraData", "processSceneData"}
  /\ last.returned = "True"
  /\ last.jdata.objects # <<>>

\* C11, as amended: every object in a region's objects[detectionType] has a
\* chain_data.regions[regionUid] entry whose entered timestamp is not later
\* than the largest time of any update so far
C11_EnteredNotAfterAnyUpdate ==
  \A o \in Occupants :
    /\ o[1] \in DOMAIN chain_data[o[3]].regions
    /\ chain_data[o[3]].regions[o[1]] <= max_now

\* an occupant whose entered time is later than the time of the latest update
C11_Witness ==
  /\ PassRan
  /\ \E o \in Occupants :
       /\ o[1] \in DOMAIN chain_data[o[3]].regions
       /\ chain_data[o[3]].regions[o[1]] > last.jdata.when

\* C11, as stated: every object in a region's objects[detectionType] has a
\* chain_data.regions[regionUid] entry whose entered timestamp is not later
\* than the time of the latest update
C11_EnteredNotAfterLatestUpdate ==
  PassRan =>
    \A o \in Occupants :
      /\ o[1] \in DOMAIN chain_data[o[3]].regions
      /\ chain_data[o[3]].regions[o[1]] <= last.jdata.when

\* --------------------------------------------- claims about the frame rate
\* the step is a processCameraData or processSceneData call
MessageStep == last'.op \in {"processCameraData", "processSceneData"}

\* the message of the step is one that the scene takes the frame rate from:
\* it carries one and is a child scene's or that of a camera of the scene
RateTaken ==
  /\ last'.jdata.frame_rate # None
  /\ last'.op = "processCameraData" => last'.jdata.id \in DOMAIN current_scene.cameras

MinOfPrevious(f) ==
  IF current_scene.ref_camera_frame_rate = None
  THEN f
  ELSE Min(current_scene.ref_camera_frame_rate, f)

\* C16, as amended: ref_camera_frame_rate never increases once it is set;
\* after a processSceneData message, or a processCameraData message of a
\* camera of the scene, that carries frame_rate f it equals min(previous
\* value, f) (or f if it was unset); a message without frame_rate, and a
\* processCameraData message of a camera unknown to the scene, leaves it
\* unchanged
C16_FrameRateMinOfTakenRates ==
  [][ MessageStep =>
        /\ current_scene.ref_camera_frame_rate # None =>
             /\ current_scene'.ref_camera_frame_rate # None
             /\ current_scene'.ref_camera_frame_rate <= current_scene.ref_camera_frame_rate
        /\ IF RateTaken
           THEN current_scene'.ref_camera_frame_rate = MinOfPrevious(last'.jdata.frame_rate)
           ELSE current_scene'.ref_camera_frame_rate = current_scene.ref_camera_frame_rate
    ]_vars

\* an unknown camera's message with a lower frame rate than the scene's
C16_Witness ==
  /\ last.op = "processCameraData"
  /\ last.jdata.id \notin DOMAIN current_scene.cameras
  /\ last.jdata.frame_rate # None
  /\ current_scene.ref_camera_frame_rate # None
  /\ last.jdata.frame_rate < current_scene.ref_camera_frame_rate

\* C16, as stated: after a message carrying frame_rate f, ref_camera_frame_rate
\* equals min(previous value, f) (or f if it was unset), and a message without
\* frame_rate leaves it unchanged
C16_FrameRateMinOfEveryRate ==
  [][ MessageStep =>
        IF last'.jdata.frame_rate # None
        THEN current_scene'.ref_camera_frame_rate = MinOfPrevious(last'.jdata.frame_rate)
        ELSE current_scene'.ref_camera_frame_rate = current_scene.ref_camera_frame_rate
    ]_vars

\* ------------------------------------------- a scene with geodetic output
\* configurations of one scene that differ in output_lla and map_corners_lla
\* (and in a region, the cameras and the tracker times)
GeoSceneDatas ==
  { [ uid |-> "s1", name |-> "hall", cameras |-> c,
      regions |-> [r \in {"r1"} |-> [name |-> "dock", points |-> p]],
      tripwires |-> <<>>, sensors |-> <<>>, tracker_config |-> k,
      use_tracker |-> TRUE, output_lla |-> o, map_corners_lla |-> m,
      regulated_rate |-> 1, external_update_rate |-> 1 ] :
    c \in CameraLists, p \in {1, 2},
    k \in { NoTrackerConfig, << 2, 1, 1, FALSE, DEFAULT_CHUNKING_INTERVAL_MS >> },
    o \in BOOLEAN, m \in {"None", "corners1", "corners2"} }

InitGeo ==
  /\ \E scene_data \in GeoSceneDatas : current_scene = Aged(deserialize(scene_data))
  /\ chain_data = <<>>
  /\ max_now = -1
  /\ NoPublisher
  /\ cache_manager = <<>>
  /\ fetched = <<>>
  /\ since_invalidate = -1
  /\ ChunkInit
  /\ last = NoOp

NextGeo == \E scene_data \in GeoSceneDatas : UpdateScene(scene_data)

SpecGeo == InitGeo /\ [][NextGeo]_vars

\* C17: after deserialize and after every updateScene, trs_xyz_to_lla is None
\* if and only if output_lla is false or map_corners_lla is unset, and a
\* matrix that is there is the one of the current map_corners_lla: none
\* computed before the update is left behind
C17_TrsIffOutputAndCorners ==
  /\ current_scene.trs = NoTrs <=>
       ~current_scene.output_lla \/ current_scene.map_corners_lla = "None"
  /\ current_scene.trs # NoTrs =>
       current_scene.trs = calculateTRS(current_scene.map_corners_lla)

\* an updateScene without corners on a scene that had a matrix
C17_Witness ==
  /\ last.op = "updateScene"
  /\ last.trs_before # NoTrs
  /\ last.scene_data.output_lla
  /\ last.scene_data.map_corners_lla = "None"
  /\ current_scene.trs = NoTrs

\* ------------------------------------------ claims about the frameCount gate
\* the step is a camera message's event pass for persons that ran to its end
PersonPassStep ==
  /\ last'.op = "processCameraData"
  /\ last'.returned = "True"
  /\ last'.jdata.objects # <<>>
  /\ last'.jdata.objects[1][1] = "person"

\* the objects of the pass that the frameCount gate of a region lets through
\* and that are in the region
RegionGate(key) ==
  LET cur == last'.jdata.objects[1][2]
  IN  { g \in DOMAIN cur :
          /\ cur[g].frameCount >= 4 \/ ~current_scene.use_tracker
          /\ key \in cur[g].within }

\* the objects of the pass that are evaluated for a crossing, and cross
TripwireGate(key) ==
  LET cur == last'.jdata.objects[1][2]
  IN  { g \in DOMAIN cur :
          /\ cur[g].frameCount >= 4
          /\ chain_data'[g].publishedLocations >= 2
          /\ key \in cur[g].crosses }

\* C18: the occupants that a pass gives a region are the objects in it with
\* frameCount >= 4, or all objects in it when use_tracker is false, and it
\* gives them whenever they differ from the occupants so far and the debounce
\* delay has passed; the crossings that a pass gives a tripwire are those of
\* the objects with frameCount >= 4 (that have a second published location),
\* whatever use_tracker is
C18_FrameCountGate ==
  [][ PersonPassStep =>
        /\ \A key \in DOMAIN current_scene.regions :
             LET before == current_scene.regions[key].live
                 after == current_scene'.regions[key].live
             IN  /\ after # before => after.objects["person"] = RegionGate(key)
                 /\ /\ RegionGate(key) # MapGet(before.objects, "person", {})
                    /\ Debounced(last'.jdata.when, before.when)
                    => after.objects["person"] = RegionGate(key)
        /\ \A key \in DOMAIN current_scene.tripwires :
             LET before == current_scene.tripwires[key].live
                 after == current_scene'.tripwires[key].live
             IN  /\ after # before => after.objects["person"] = TripwireGate(key)
                 /\ /\ Cardinality(TripwireGate(key))
                         # Cardinality(MapGet(before.objects, "person", {}))
                    /\ Debounced(last'.jdata.when, before.when)
                    => after.objects["person"] = TripwireGate(key)
    ]_vars

\* with use_tracker true, a pass over an object with frameCount 4 that is in
\* the region and crosses the tripwire has made it occupant and crossing
C18_Witness ==
  /\ last.op = "processCameraData"
  /\ last.returned = "True"
  /\ current_scene.use_tracker
  /\ "g1" \in DOMAIN last.jdata.objects[1][2]
  /\ last.jdata.objects[1][2]["g1"].frameCount = 4
  /\ current_scene.regions["r1"].live.when = last.jdata.when
  /\ current_scene.regions["r1"].live.objects = [person |-> {"g1"}]
  /\ current_scene.tripwires["t1"].live.when = last.jdata.when
  /\ current_scene.tripwires["t1"].live.objects = [person |-> {"g1"}]

\* -------------------------------------------------- claims about the debounce
\* C19: when a pass finds a region's occupants changed, the change is staged
\* (the region is put among the events, its objects[detectionType] replaced
\* and its `when` set to now) if now - region.when > DEBOUNCE_DELAY, and
\* otherwise, as at exactly DEBOUNCE_DELAY, suppressed: objects and `when`
\* stay as they were
C19_StagedIffStrictlyLater ==
  [][ PersonPassStep =>
        \A key \in DOMAIN current_scene.regions :
          LET before == current_scene.regions[key].live
              after == current_scene'.regions[key].live
              now == last'.jdata.when
          IN  RegionGate(key) # MapGet(before.objects, "person", {}) =>
                IF now - before.when > DEBOUNCE_DELAY
                THEN /\ after.objects["person"] = RegionGate(key)
                     /\ after.when = now
                     /\ Len(last'.jdata.objects) = 1 =>
                          key \in Range(current_scene'.events.objects)
                ELSE /\ after.objects = before.objects
                     /\ after.when = before.when
                     /\ key \notin Range(current_scene'.events.objects)
    ]_vars

\* a pass exactly DEBOUNCE_DELAY after the region's last event that found an
\* occupant leaving, and left the region as it was
C19_Witness ==
  /\ last.op = "processCameraData"
  /\ last.returned = "True"
  /\ last.jdata.objects[1][2] = <<>>
  /\ current_scene.regions["r1"].live.objects = [person |-> {"g1"}]
  /\ last.jdata.when - current_scene.regions["r1"].live.when = DEBOUNCE_DELAY

\* ------------------------------------------- claims about sensor readings
\* C20: processSensorData for a known sensor drops a reading with
\* when <= lastWhen and leaves value, lastValue and lastWhen (and the staged
\* events) unchanged; otherwise it sets lastValue to the previous value,
\* value to the new value and lastWhen to when, a later time than before,
\* and stages exactly one `value` event, for that sensor, and none other
C20_SensorReadingsInOrder ==
  [][ /\ last'.op = "processSensorData"
      /\ last'.jdata.id \in DOMAIN current_scene.sensors
      => LET before == current_scene.sensors[last'.jdata.id].live
             after == current_scene'.sensors[last'.jdata.id].live
         IN  /\ last'.returned = "True"
             /\ IF before.lastWhen # None /\ last'.when <= before.lastWhen
                THEN /\ after = before
                     /\ current_scene'.events = current_scene.events
                ELSE /\ after.lastValue = before.value
                     /\ after.value = last'.jdata.value
                     /\ after.lastWhen = last'.when
                     /\ after.lastWhen > before.lastWhen
                     /\ current_scene'.events =
                          [value |-> << last'.jdata.id >>, objects |-> <<>>, count |-> <<>>]
    ]_vars

\* a reading with the time of the last accepted one and another value, dropped
C20_Witness ==
  /\ last.op = "processSensorData"
  /\ last.jdata.id = "n1"
  /\ last.when = current_scene.sensors["n1"].live.lastWhen
  /\ last.jdata.value # current_scene.sensors["n1"].live.value
  /\ current_scene.sensors["n1"].live.lastValue # None

\* ------------------------------------------------- claims about publishing
\* the step is a tick: a camera's message handled for its scene
TickStep == last'.op = "handleMovingObjectMessage" /\ last'.scene_id # "None"

\* the tick of the step published on topic for thing_type
Sent(topic, thing_type) ==
  \E i \in DOMAIN last'.published :
    /\ last'.published[i].topic = topic
    /\ last'.published[i].scene_id = last'.scene_id
    /\ last'.published[i].thing_type = thing_type

\* C12: for each scene and category, after a tick that published a non-empty
\* scene-detection list, the next tick with an empty list is published and
\* every following empty tick is suppressed until a non-empty tick occurs,
\* whatever ingest messages and database-update notifications come between
C12_EmptyPublishedOnceAfterNonEmpty ==
  [][ /\ TickStep
      /\ last'.detections = <<>>
      /\ << last'.scene_id, last'.thing_type >> \in DOMAIN pubs.trail
      => ( Sent("scene", last'.thing_type)
           <=> pubs.trail[<< last'.scene_id, last'.thing_type >>] = "nonempty" )
    ]_vars

\* C13: for each scene, any two consecutive publications on the regulated
\* topic are at least 1/regulated_rate seconds apart, whatever ingest messages
\* and database-update notifications come between
C13_RegulatedInterval ==
  [][ /\ TickStep
      /\ Sent("regulated", "")
      /\ << "regulated", last'.scene_id, "" >> \in DOMAIN pubs.at
      => clock' - pubs.at[<< "regulated", last'.scene_id, "" >>]
           >= Period(cache_manager'.cached_scenes_by_uid[last'.scene_id].regulated_rate)
    ]_vars

\* C14: for each scene and category, consecutive publications on the external
\* topic are at least 1/external_update_rate seconds apart, and an external
\* publication happens only in a tick that also published the identical
\* payload on the scene-detection topic
C14_ExternalIntervalAndPayload ==
  [][ TickStep /\ Sent("external", last'.thing_type) =>
        /\ << "external", last'.scene_id, last'.thing_type >> \in DOMAIN pubs.at =>
             clock' - pubs.at[<< "external", last'.scene_id, last'.thing_type >>]
               >= Period(cache_manager'.cached_scenes_by_uid[last'.scene_id].external_update_rate)
        /\ \A i \in DOMAIN last'.published :
             last'.published[i].topic = "external" =>
               \E j \in DOMAIN last'.published :
                 /\ last'.published[j].topic = "scene"
                 /\ last'.published[j].scene_id = last'.published[i].scene_id
                 /\ last'.published[j].thing_type = last'.published[i].thing_type
                 /\ last'.published[j].payload = last'.published[i].payload
    ]_vars

\* the gids of the objects that a scene's tracker holds
SceneObjects(uid) == IF uid = "s1" THEN {"p1", "v1"} ELSE {"q1"}

\* C15: every regulated message published for a scene contains, for each
\* category that has had a tick for that scene, exactly the detection list of
\* that category's most recent tick, and contains no object of any other scene
C15_RegulatedHoldsLatestOfEachCategory ==
  [][ TickStep =>
        \A i \in DOMAIN last'.published :
          last'.published[i].topic = "regulated" =>
            LET payload == last'.published[i].payload
                latest == AllCached(pubs'.latest[last'.scene_id])
            IN  /\ Range(payload) = Range(latest)
                /\ Len(payload) = Len(latest)
                /\ \A k \in DOMAIN payload : payload[k].id \in SceneObjects(last'.scene_id)
    ]_vars

\* ------------------------------------------ SceneController: ingest handlers
\* A moving-object message is a record: topic ("camera" for DATA_CAMERA,
\* "external" for DATA_EXTERNAL), topic_id (the camera_id or the scene_id of
\* the topic), id (jdata['id']), timestamp, frame_rate, objects and both.  The
\* messages carry neither intrinsics nor distortion.  The controller `self`
\* is a record of the cache manager, the regulate cache, the time settings,
\* the chain data of the tracked objects and what the handler has done so
\* far: dropped (the fell_behind counter), raised (the exception that ended
\* it), outcome (the return it took), msg_when, submitted and published.

Abs(x) == IF x < 0 THEN -x ELSE x

\* the order in which the tracker lists its objects
GidOrder == << "g1" >>

IdsOf(curObjects) == SelectSeq(GidOrder, LAMBDA g : g \in DOMAIN curObjects)

\* the message as Scene.process*Data reads it when called with when=msg_when
At(jdata, msg_when) ==
  [ id |-> jdata.id, frame_rate |-> jdata.frame_rate, when |-> msg_when,
    objects |-> jdata.objects, both |-> jdata.both ]

\* the scene uid of the cache with the chain data of the tracked objects
SceneWorld(self, uid) ==
  [ scene |-> SceneOf(self, uid), chain_data |-> self.chain_data,
    max_now |-> self.max_now, returned |-> "None", submitted |-> <<>> ]

\* the controller once scene uid has processed a message and left w
Processed(self, uid, w) ==
  [WithScene(self, uid, w.scene) EXCEPT
     !.chain_data = w.chain_data,
     !.max_now = w.max_now,
     !.submitted = @ \o w.submitted,
     !.raised = IF w.returned = "NotImplementedError" THEN w.returned ELSE @]

\* CacheManager.refreshScenesForCamParams for a message without intrinsics and
\* without distortion: cameraParametersChanged is false twice, the loop over
\* self.cached_scenes_by_uid.values() finds no cx and cy, and no refresh
\* follows; the loop raises AttributeError when cached_scenes_by_uid is None
refreshScenesForCamParams(self) ==
  IF self.cache_manager.by_uid_is_None
  THEN [self EXCEPT !.raised = "AttributeError"]
  ELSE self

\* the checkRefresh of a lookup, where getScenes() would return result
Looked(self, result) == [self EXCEPT !.cache_manager = checkRefresh(@, result)]

\* the entries of scene.events, event type by event type
TypedKeys(event_type, keys) == [ i \in DOMAIN keys |-> << event_type, keys[i] >> ]

Staged(scene) ==
  TypedKeys("value", scene.events.value) \o TypedKeys("objects", scene.events.objects)
    \o TypedKeys("count", scene.events.count)

\* which dict of the scene holds the region, sensor or tripwire key
KindOf(scene, key) ==
  IF key \in DOMAIN scene.tripwires THEN "tripwires"
  ELSE IF key \in DOMAIN scene.regions THEN "regions" ELSE "sensors"

\* the loop of publishEvents over the staged entries: a tripwire event is
\* published only when the tripwire holds objects
RECURSIVE publishStaged(_, _, _)
publishStaged(self, uid, staged) ==
  IF staged = <<>>
  THEN self
  ELSE LET scene == SceneOf(self, uid)
           event_type == Head(staged)[1]
           key == Head(staged)[2]
           kind == KindOf(scene, key)
           objects == IF key \in DOMAIN scene[kind]
                      THEN scene[kind][key].live.objects
                      ELSE <<>>
           num_objects == Cardinality(UNION { objects[t] : t \in DOMAIN objects })
           sent == IF kind # "tripwires" \/ num_objects > 0
                   THEN Publish(self, "event", uid, << event_type, key >>, <<>>)
                   ELSE self
       IN  publishStaged(sent, uid, Tail(staged))

\* _clearSensorValuesOnExit: region.exited = {} and region.entered = {} for
\* every staged entry
RECURSIVE clearStaged(_, _)
clearStaged(scene, staged) ==
  IF staged = <<>>
  THEN scene
  ELSE LET key == Head(staged)[2]
           kind == KindOf(scene, key)
       IN  clearStaged(
             IF key \in DOMAIN scene[kind]
             THEN [scene EXCEPT ![kind][key].live.entered = <<>>,
                                ![kind][key].live.exited = <<>>]
             ELSE scene,
             Tail(staged))

\* SceneController.publishEvents
publishEvents(self, uid) ==
  LET staged == Staged(SceneOf(self, uid))
      sent == publishStaged(self, uid, staged)
  IN  WithScene(sent, uid, clearStaged(SceneOf(sent, uid), staged))

\* the loop of handleMovingObjectMessage over detection_types: publishDetections
\* and publishEvents for each
RECURSIVE publishTypes(_, _, _, _)
publishTypes(self, uid, tracked, now) ==
  IF tracked = <<>>
  THEN self
  ELSE publishTypes(
         publishEvents(
           publishDetections(self, uid, Head(tracked)[2], Head(tracked)[1], now,
                             self.chain_data),
           uid),
         uid, Tail(tracked), now)

\* a failure branch that returns without invalidating the cache
processingFailedCacheKept(self) == [self EXCEPT !.outcome = "failed"]

\* `if not success: log.error(...); self.cache_manager.invalidate(); return`
processingFailed(self) ==
  [self EXCEPT !.cache_manager = invalidate(@), !.outcome = "failed"]

\* SceneController._handleChildSceneObject: self.success is what it returns
\* as success ("None" when it returns no tuple) and self.scene the uid of the
\* scene it returns
childSceneObject(looked, sender_id, jdata, detection_type, msg_when) ==
  LET cm == looked.cache_manager
      local == sender_id \in DOMAIN cm.cached_scenes_by_uid
      remote == sender_id \in DOMAIN cm.cached_child_transforms_by_uid
  IN  IF ~local /\ ~remote
      THEN [looked EXCEPT !.success = "None"]
      ELSE LET sender == IF local
                         THEN cm.cached_scenes_by_uid[sender_id]
                         ELSE cm.cached_child_transforms_by_uid[sender_id]
               parent == MapGet(sender, "parent", "None")
           IN  IF parent = "None"
               THEN [looked EXCEPT !.success = "False", !.scene = sender_id]
               ELSE IF parent \notin DOMAIN cm.cached_scenes_by_uid
                    THEN \* sceneWithID(sender.parent) is None
                         [looked EXCEPT !.raised = "AttributeError"]
                    ELSE LET w == processSceneData(SceneWorld(looked, parent),
                                                   At(jdata, msg_when), detection_type)
                         IN  [Processed(looked, parent, w) EXCEPT
                                !.success = w.returned, !.scene = parent]

\* _handleChildSceneObject after the checkRefresh of its first lookup, where
\* getScenes() would return result
handleChildSceneObject(self, sender_id, jdata, detection_type, msg_when, result) ==
  childSceneObject(Looked(self, result), sender_id, jdata, detection_type, msg_when)

\* the camera branch (l.400-407) once sceneWithCameraID has refreshed the cache
cameraObject(looked, message, msg_when) ==
  LET sender == GetOrNone(looked.cache_manager.cached_scenes_by_cameraID,
                          message.topic_id)
  IN  IF sender = {}
      THEN [looked EXCEPT !.outcome = "unknown sender"]
      ELSE LET uid == CHOOSE u \in sender : TRUE
               w == processCameraData(SceneWorld(looked, uid), At(message, msg_when))
           IN  [Processed(looked, uid, w) EXCEPT !.success = w.returned, !.scene = uid]

\* what follows the routing (l.409-421): routed is the controller with what
\* the branch returned
afterRouting(routed, message, now) ==
  LET tracked ==
        IF message.topic = "external"
        THEN << << "person", IdsOf(message.objects) >> >>
        ELSE [ i \in DOMAIN message.objects |->
                 << message.objects[i][1], IdsOf(message.objects[i][2]) >> ]
  IN  IF routed.raised # "None" \/ routed.outcome # "None"
      THEN routed
      ELSE IF routed.success = "None"
      THEN \* success, scene = None
           [routed EXCEPT !.raised = "TypeError"]
      ELSE IF routed.success # "True"
      THEN processingFailed(routed)
      ELSE [publishTypes(routed, routed.scene, tracked, now) EXCEPT
              !.outcome = "published"]

\* handleMovingObjectMessage from its routing on (l.394-421), msg_when decided
routeMovingObjectMessage(self, message, now, msg_when, result) ==
  afterRouting(
    IF message.topic = "external"
    THEN handleChildSceneObject(self, message.topic_id, message, "person",
                                msg_when, result)
    ELSE cameraObject(Looked(self, result), message, msg_when),
    message, now)

\* SceneController.handleMovingObjectMessage, whole, for a message that
\* passes the schema and carries no 'updatecamera', handled at time now,
\* where getScenes() would return result
ingestMovingObjectMessage(self, message, now, result) ==
  LET refreshed == refreshScenesForCamParams(self)
      stamped == IF self.rewrite_all_time THEN now ELSE message.timestamp
      lag == Abs(now - stamped)
      msg_when == IF lag > self.max_lag THEN now ELSE stamped
  IN  IF refreshed.raised # "None"
      THEN refreshed
      ELSE IF lag > self.max_lag /\ ~self.rewrite_bad_time
      THEN [refreshed EXCEPT !.dropped = @ + 1, !.outcome = "fell behind"]
      ELSE routeMovingObjectMessage([refreshed EXCEPT !.msg_when = msg_when],
                                    message, now, msg_when, result)

\* SceneController.handleSensorMessage for a message that passes the schema
sensorReading(looked, jdata, ts) ==
  LET scene == GetOrNone(looked.cache_manager.cached_scenes_by_sensorID, jdata.id)
  IN  IF scene = {}
      THEN [looked EXCEPT !.outcome = "unknown sender"]
      ELSE LET uid == CHOOSE u \in scene : TRUE
               w == processSensorData(SceneWorld(looked, uid), jdata, ts)
           IN  IF w.returned # "True"
               THEN processingFailed(
                      [Processed(looked, uid, w) EXCEPT
                         !.msg_when = ts, !.success = w.returned, !.scene = uid])
               ELSE [publishEvents(
                       [Processed(looked, uid, w) EXCEPT
                          !.msg_when = ts, !.success = w.returned, !.scene = uid],
                       uid)
                     EXCEPT !.outcome = "published"]

\* handleSensorMessage after the checkRefresh of sceneWithSensorID, where
\* getScenes() would return result
handleSensorMessage(self, jdata, now, result) ==
  sensorReading(Looked(self, result), jdata,
                IF self.rewrite_all_time THEN now ELSE jdata.timestamp)

\* ------------------------------------------------- a controller ingesting
MaxIngestClock == 3
MaxDropped == 1
IngestMaxLag == 1

\* the scenes of the data source: s1 with a camera and a sensor, and its
\* local child s2
IngestResult ==
  [ has_results |-> TRUE,
    results |->
      << [ uid |-> "s1", name |-> "hall",
           cameras |-> [c \in {"cam1"} |-> [resolution |-> 1, translation |-> 1]],
           regions |-> <<>>, tripwires |-> <<>>,
           sensors |-> [n \in {"n1"} |-> [name |-> "temp", points |-> 1]],
           tracker_config |-> NoTrackerConfig,
           use_tracker |-> TRUE, output_lla |-> FALSE, map_corners_lla |-> "None",
           regulated_rate |-> 1, external_update_rate |-> 2 ],
         [ uid |-> "s2", name |-> "yard", parent |-> "s1",
           cameras |-> <<>>, regions |-> <<>>, tripwires |-> <<>>, sensors |-> <<>>,
           tracker_config |-> NoTrackerConfig,
           use_tracker |-> TRUE, output_lla |-> FALSE, map_corners_lla |-> "None",
           regulated_rate |-> 1, external_update_rate |-> 2 ] >> ]

\* the settings of SceneController.__init__
Settings ==
  { [rewrite_bad_time |-> b, rewrite_all_time |-> a, max_lag |-> IngestMaxLag] :
      b \in BOOLEAN, a \in BOOLEAN }

\* what the tracker holds once it has been given a message: g1, outside
Seen == [g \in Gids |-> [frameCount |-> 4, within |-> {}, crosses |-> {}]]

\* the timestamps of the messages handled at time now: on time, at the lag
\* limit, and beyond it in the past and in the future
Timestamps(now) ==
  { t \in { now - d : d \in { -(IngestMaxLag + 1), 0, IngestMaxLag, IngestMaxLag + 1 } } :
      t >= 0 }

\* the frames: of cam1, of cam1's topic under another id, of the unknown cam9
CameraFrames(now) ==
  { [ topic |-> "camera", topic_id |-> p[1], id |-> p[2], timestamp |-> t,
      frame_rate |-> None, objects |-> << << "person", Seen >> >>, both |-> FALSE ] :
      p \in { << "cam1", "cam1" >>, << "cam1", "cam9" >>, << "cam9", "cam9" >> },
      t \in Timestamps(now) }

\* the batches of child scenes: of the child s2, of s1, which has no parent,
\* and of the unknown s9
ChildBatches(now) ==
  { [ topic |-> "external", topic_id |-> i, id |-> i, timestamp |-> t,
      frame_rate |-> None, objects |-> Seen, both |-> FALSE ] :
      i \in {"s2", "s1", "s9"}, t \in Timestamps(now) }

\* the readings of the sensor n1 and of the unknown n9
IngestSensorMessages(now) ==
  { [id |-> i, value |-> 20, timestamp |-> now] : i \in {"n1", "n9"} }

\* the controller as a handler finds it
Ingesting ==
  [ cache_manager |-> AgedCache(cache_manager), regulate_cache |-> regulate_cache,
    rewrite_bad_time |-> controller.rewrite_bad_time,
    rewrite_all_time |-> controller.rewrite_all_time,
    max_lag |-> controller.max_lag,
    chain_data |-> chain_data, max_now |-> max_now,
    dropped |-> metrics_dropped, raised |-> "None", outcome |-> "None",
    msg_when |-> None, success |-> "None", scene |-> "None",
    submitted |-> <<>>, published |-> <<>> ]

\* what a handler call has done
Done(op, before, self, topic, topic_id, timestamp) ==
  [ op |-> op, topic |-> topic, topic_id |-> topic_id, timestamp |-> timestamp,
    was_None |-> before.cache_manager.by_uid_is_None,
    dropped_before |-> before.dropped,
    raised |-> self.raised, outcome |-> self.outcome, success |-> self.success,
    msg_when |-> self.msg_when, submitted |-> self.submitted,
    published |-> Len(self.published) ]

InitIngest ==
  /\ cache_manager = AgedCache(refreshScenes(NewCacheManager(NoTrackerConfig), IngestResult))
  /\ fetched = IngestResult
  /\ since_invalidate = -1
  /\ regulate_cache = <<>>
  /\ clock = IngestMaxLag + 1
  /\ pubs = <<>>
  /\ controller \in Settings
  /\ metrics_dropped = 0
  /\ NoSubscriptions
  /\ current_scene = <<>>
  /\ chain_data = [g \in Gids |-> NoChain]
  /\ max_now = -1
  /\ ChunkInit
  /\ last = NoOp

\* the state a handler call leaves
Ingested(self) ==
  /\ self.dropped <= MaxDropped
  /\ cache_manager' = self.cache_manager
  /\ regulate_cache' = self.regulate_cache
  /\ chain_data' = self.chain_data
  /\ max_now' = self.max_now
  /\ metrics_dropped' = self.dropped
  /\ UNCHANGED << fetched, since_invalidate, pubs, controller, current_scene, chunkVars, subscribeVars >>

\* a moving-object message arrives and is handled at time now
IngestMovingObject(message, now) ==
  \E before \in { Ingesting } :
  \E self \in { ingestMovingObjectMessage(before, message, now, IngestResult) } :
      /\ Ingested(self)
      /\ clock' = now
      /\ last' = Done("handleMovingObjectMessage", before, self, message.topic,
                      << message.topic_id, message.id >>, message.timestamp)

\* a sensor message arrives and is handled at time now
IngestSensor(jdata, now) ==
  \E before \in { Ingesting } :
  \E self \in { handleSensorMessage(before, jdata, now, IngestResult) } :
      /\ Ingested(self)
      /\ clock' = now
      /\ last' = Done("handleSensorMessage", before, self, "sensor",
                      << jdata.id, jdata.id >>, jdata.timestamp)

IngestNows == { t \in clock..(clock + 1) : t <= MaxIngestClock }

NextIngest ==
  \/ \E now \in IngestNows : \E message \in CameraFrames(now) :
       IngestMovingObject(message, now)
  \/ \E now \in IngestNows : \E message \in ChildBatches(now) :
       IngestMovingObject(message, now)
  \/ \E now \in IngestNows : \E jdata \in IngestSensorMessages(now) :
       IngestSensor(jdata, now)

SpecIngest == InitIngest /\ [][NextIngest]_vars

\* ------------------------------------------------------- ingest: claims

HandledMoving == last.op = "handleMovingObjectMessage"

\* the timestamp the last message is given before its lag is taken, and the lag
Stamped == IF controller.rewrite_all_time THEN clock ELSE last.timestamp

Lag == Abs(clock - Stamped)

\* C21: a moving-object message whose lag exceeds max_lag is dropped when
\* rewrite_bad_time is false (the fell_behind counter goes up by one, nothing
\* is submitted to the tracker, nothing is published) and is processed with
\* msg_when = now when rewrite_bad_time is true; a message whose lag is within
\* max_lag keeps its timestamp; with rewrite_all_time no message is dropped
\* for lag.
C21_LagPolicy ==
  HandledMoving =>
    /\ IF Lag > controller.max_lag
       THEN IF ~controller.rewrite_bad_time
            THEN /\ metrics_dropped = last.dropped_before + 1
                 /\ last.submitted = <<>>
                 /\ last.published = 0
            ELSE /\ metrics_dropped = last.dropped_before
                 /\ last.msg_when = clock
       ELSE /\ metrics_dropped = last.dropped_before
            /\ last.msg_when = Stamped
    /\ controller.rewrite_all_time => metrics_dropped = last.dropped_before

\* the last message came from a camera, sensor or child scene that the cache
\* does not know
UnknownCamera == last.op = "handleMovingObjectMessage" /\ last.topic = "camera" /\ last.topic_id[1] = "cam9"

UnknownSensor == last.op = "handleSensorMessage" /\ last.topic_id[1] = "n9"

UnknownChild == last.op = "handleMovingObjectMessage" /\ last.topic = "external" /\ last.topic_id[1] = "s9"

\* C22: a message from an unknown camera id, sensor id or child-scene id is
\* dropped and its handler returns without raising: nothing is submitted to a
\* tracker and nothing is published for it.
C22_UnknownDropped ==
  (UnknownCamera \/ UnknownSensor \/ UnknownChild) =>
    /\ last.raised = "None"
    /\ last.submitted = <<>>
    /\ last.published = 0

\* C23: whenever processCameraData, processSceneData or processSensorData
\* returns false for a message (or _handleChildSceneObject reports no success),
\* the controller invalidates the cache and publishes no detections and no
\* events for that message.
C23_FailureInvalidatesAndPublishesNothing ==
  (last.op # "init" /\ last.success = "False") =>
    /\ cache_manager.by_uid_is_None
    /\ last.published = 0
    /\ last.outcome = "failed"

\* C23's case: processCameraData returned False for a frame that came on the
\* topic of a known camera, while the cache was loaded
C23_Witness ==
  /\ last.op = "handleMovingObjectMessage"
  /\ last.topic = "camera"
  /\ last.topic_id = << "cam1", "cam9" >>
  /\ last.success = "False"
  /\ ~last.was_None
  /\ cache_manager.by_uid_is_None

\* C24: after a message whose processing failed and invalidated the cache,
\* the next moving-object or sensor message is handled to completion without
\* raising, the cache being refreshed before it is read.
C24_NextMessageHandled ==
  (last.op # "init" /\ last.was_None) => last.raised = "None"

\* ------------------------------------- SceneController: updateSubscriptions
\* A topic is a pair of its kind and the id it is formatted with.  A callback
\* is a bound method: the method's name, the object it is bound to and
\* isNew, which says that the object was constructed by the call under way.
\* Two bound methods are equal when they are the same method of the same
\* object.

Callback(method, obj, isNew) == [method |-> method, obj |-> obj, isNew |-> isNew]

OwnCallback(method) == Callback(method, "self", FALSE)

\* self.pubsub.addCallback(topic, callback): the client subscribes to the
\* topic and calls callback for its messages
addCallback(held, topic, callback) == MapSet(held, topic, callback)

\* self.pubsub.removeCallback(topic)
removeCallback(held, topic) == MapPop(held, topic)

RECURSIVE SeqOfSet(_)
SeqOfSet(S) ==
  IF S = {} THEN <<>>
  ELSE LET x == CHOOSE y \in S : TRUE IN << x >> \o SeqOfSet(S \ {x})

\* `for topic, callback in old: self.pubsub.removeCallback(topic)`
RECURSIVE removeAll(_, _)
removeAll(held, old) ==
  IF old = <<>> THEN held ELSE removeAll(removeCallback(held, Head(old)[1]), Tail(old))

\* `for topic, callback in new: self.pubsub.addCallback(topic, callback)`
RECURSIVE addAll(_, _)
addAll(held, new) ==
  IF new = <<>>
  THEN held
  ELSE addAll(addCallback(held, Head(new)[1], Head(new)[2]), Tail(new))

\* the pairs a scene adds to need_subscribe, where infos is the sequence
\* that getChildScenes(scene.uid) returns for it
NeedOfScene(scene, infos) ==
  { << << "camera", c >>, OwnCallback("handleMovingObjectMessage") >> :
      c \in DOMAIN scene.cameras }
  \cup
  { << << "sensor", n >>, OwnCallback("handleSensorMessage") >> :
      n \in DOMAIN scene.sensors }
  \cup
  UNION { IF infos[i].child_type = "local"
          THEN { << << "external", infos[i].child >>,
                    OwnCallback("handleMovingObjectMessage") >>,
                 << << "event", infos[i].child >>, OwnCallback("republishEvents") >> }
          ELSE { << << "status", infos[i].remote_child_id >>,
                    Callback("publishStatus", infos[i].remote_child_id, TRUE) >> } :
          i \in IF "children" \in DOMAIN scene THEN DOMAIN infos ELSE {} }

\* updateSubscriptions once allScenes() has refreshed the cache into cm, where
\* getChildScenes(uid) returns child_scenes[uid]; self.removed and self.added
\* list the topics given to removeCallback and to addCallback
subscribeRefreshed(self, cm, child_scenes) ==
  LET scenes == cm.cached_scenes_by_uid
      parents == { u \in DOMAIN scenes : "children" \in DOMAIN scenes[u] }
      infos == UNION { Range(MapGet(child_scenes, u, <<>>)) : u \in parents }
      locals == { i \in infos : i.child_type = "local" }
      remotes == { i \in infos : i.child_type # "local" }
      need_subscribe ==
        UNION { NeedOfScene(scenes[u], MapGet(child_scenes, u, <<>>)) : u \in DOMAIN scenes }
      need_subscribe_child ==
        [ id \in { i.remote_child_id : i \in remotes } |-> [isNew |-> TRUE, running |-> TRUE] ]
      retracked ==
        [ u \in DOMAIN scenes |->
            IF \E i \in locals : i.child = u
            THEN MapSet(scenes[u], "retrack",
                        (CHOOSE i \in locals : i.child = u).retrack)
            ELSE scenes[u] ]
      transforms ==
        [ id \in { i.remote_child_id : i \in remotes } |->
            deserialize(CHOOSE i \in remotes : i.remote_child_id = id) ]
      new == SeqOfSet(need_subscribe \ self.subscribed)
      old == SeqOfSet(self.subscribed \ need_subscribe)
  IN  IF \E i \in locals : i.child \notin DOMAIN scenes
      THEN \* sceneWithID(info['child']) is None
           [self EXCEPT !.cache_manager = cm, !.raised = "AttributeError"]
      ELSE [self EXCEPT
              !.cache_manager =
                [cm EXCEPT !.cached_scenes_by_uid = retracked,
                           !.cached_child_transforms_by_uid = transforms],
              !.subscribed_children = need_subscribe_child,
              !.callbacks = addAll(removeAll(self.callbacks, old), new),
              !.removed = { old[i][1] : i \in DOMAIN old },
              !.added = { new[i][1] : i \in DOMAIN new },
              !.subscribed = need_subscribe]

\* SceneController.updateSubscriptions, where getScenes() would return result:
\* cm is the cache after the invalidate and the refresh of allScenes()
updateSubscriptions(self, result, child_scenes) ==
  subscribeRefreshed(self, checkRefresh(invalidate(self.cache_manager), result),
                     child_scenes)

\* ------------------------------------------- a controller subscribing

\* the scenes of the data source: s1, which lists its children, with one or
\* two cameras and with or without a sensor, and s2
SubscribeResults ==
  { [ has_results |-> TRUE,
      results |->
        << [ uid |-> "s1", name |-> "hall", children |-> << >>,
             cameras |-> [c \in cams |-> [resolution |-> 1]],
             regions |-> <<>>, tripwires |-> <<>>,
             sensors |-> [n \in sens |-> [name |-> "temp", points |-> 1]],
             tracker_config |-> NoTrackerConfig,
             use_tracker |-> TRUE, output_lla |-> FALSE, map_corners_lla |-> "None",
             regulated_rate |-> 1, external_update_rate |-> 2 ],
           [ uid |-> "s2", name |-> "yard",
             cameras |-> <<>>, regions |-> <<>>, tripwires |-> <<>>, sensors |-> <<>>,
             tracker_config |-> NoTrackerConfig,
             use_tracker |-> TRUE, output_lla |-> FALSE, map_corners_lla |-> "None",
             regulated_rate |-> 1, external_update_rate |-> 2 ] >> ] :
    cams \in { {"cam1"}, {"cam1", "cam2"} }, sens \in { {}, {"n1"} } }

\* the link of s1 to its local child s2
LocalChild(retrack) ==
  [ child_type |-> "local", child |-> "s2", retrack |-> retrack,
    remote_child_id |-> "None",
    uid |-> "s2", name |-> "yard",
    cameras |-> <<>>, regions |-> <<>>, tripwires |-> <<>>, sensors |-> <<>>,
    tracker_config |-> NoTrackerConfig,
    use_tracker |-> TRUE, output_lla |-> FALSE, map_corners_lla |-> "None",
    regulated_rate |-> 1, external_update_rate |-> 2 ]

\* the link of s1 to the remote child r1
RemoteChild ==
  [ child_type |-> "remote", child |-> "None", retrack |-> TRUE,
    remote_child_id |-> "r1",
    uid |-> "r1", name |-> "annex",
    cameras |-> <<>>, regions |-> <<>>, tripwires |-> <<>>, sensors |-> <<>>,
    tracker_config |-> NoTrackerConfig,
    use_tracker |-> TRUE, output_lla |-> FALSE, map_corners_lla |-> "None",
    regulated_rate |-> 1, external_update_rate |-> 2 ]

\* what getChildScenes answers, by scene uid
ChildScenes ==
  { [u \in {"s1"} |-> infos] :
      infos \in { <<>>, << LocalChild(TRUE) >>, << RemoteChild >>,
                  << LocalChild(FALSE), RemoteChild >> } }

\* the bound methods as a later call finds them: of objects that exist
AgedPairs(pairs) == { << p[1], [p[2] EXCEPT !.isNew = FALSE] >> : p \in pairs }

AgedHeld(held) == [ t \in DOMAIN held |-> [held[t] EXCEPT !.isNew = FALSE] ]

\* the controller as updateSubscriptions finds it
Subscribing ==
  [ cache_manager |-> AgedCache(cache_manager),
    subscribed |-> AgedPairs(subscribed),
    subscribed_children |-> AgedHeld(subscribed_children),
    callbacks |-> AgedHeld(callbacks),
    removed |-> {}, added |-> {}, raised |-> "None" ]

\* the state after SceneController.__init__, before the client connects
InitSubscribe ==
  /\ \E result \in SubscribeResults :
       /\ cache_manager = AgedCache(refreshScenes(NewCacheManager(NoTrackerConfig), result))
       /\ fetched = result
  /\ since_invalidate = -1
  /\ current_scene = <<>>
  /\ chain_data = <<>>
  /\ max_now = -1
  /\ NoPublisher
  /\ ChunkInit
  /\ last = NoOp

\* updateSubscriptions, called by onConnect and by handleDatabaseMessage
Resubscribe(result, child_scenes) ==
  \E before \in { Subscribing } :
  \E self \in { updateSubscriptions(before, result, child_scenes) } :
      /\ cache_manager' = self.cache_manager
      /\ fetched' = Fetched(self.cache_manager, result, fetched)
      /\ since_invalidate' = 1
      /\ subscribed' = self.subscribed
      /\ subscribed_children' = self.subscribed_children
      /\ callbacks' = self.callbacks
      /\ last' = [op |-> "updateSubscriptions", child_scenes |-> child_scenes,
                  before |-> { p[1] : p \in subscribed },
                  removed |-> self.removed, added |-> self.added,
                  raised |-> self.raised]
      /\ UNCHANGED << regulate_cache, clock, pubs, controller, metrics_dropped,
                      sceneVars, chunkVars >>

NextSubscribe ==
  \E result \in SubscribeResults, child_scenes \in ChildScenes :
    Resubscribe(result, child_scenes)

SpecSubscribe == InitSubscribe /\ [][NextSubscribe]_vars

\* the topics of the desired set, from the scenes of the cache and the
\* children the data source listed for them
DesiredTopics ==
  LET scenes == cache_manager.cached_scenes_by_uid
      infos == UNION { Range(MapGet(last.child_scenes, u, <<>>)) :
                         u \in { v \in DOMAIN scenes : "children" \in DOMAIN scenes[v] } }
  IN  UNION { { << "camera", c >> : c \in DOMAIN scenes[u].cameras } : u \in DOMAIN scenes }
      \cup
      UNION { { << "sensor", n >> : n \in DOMAIN scenes[u].sensors } : u \in DOMAIN scenes }
      \cup
      UNION { IF i.child_type = "local"
              THEN { << "external", i.child >>, << "event", i.child >> }
              ELSE { << "status", i.remote_child_id >> } : i \in infos }

\* C25: after every updateSubscriptions the subscribed set is the desired set
\* of the current scenes and every desired topic has its callback held by the
\* client; a topic of both the previous and the new desired set is neither
\* unsubscribed nor subscribed again, the status topic of an unchanged remote
\* child included.
C25_SubscribedIsDesiredWithoutChurn ==
  last.op = "updateSubscriptions" =>
    /\ { p[1] : p \in subscribed } = DesiredTopics
    /\ \A p \in subscribed : p[1] \in DOMAIN callbacks /\ callbacks[p[1]] = p[2]
    /\ \A t \in last.before \cap DesiredTopics :
         t \notin last.removed /\ t \notin last.added

\* ------------------------------------- TimeChunkBuffer: add against pop_all
\* The handler thread calls add and the dispatcher thread calls pop_all; each
\* statement inside `with self._lock:` is a step of its own, so that the two
\* bodies interleave wherever the lock lets them.

MaxAdds == 3

\* `with self._lock:` lets a thread in when no thread holds the lock
LockEntersAlways(held) == TRUE

LockEnters(held) == held = "free"

\* `if category not in self._data: self._data[category] = {}`
EnsureCategory(data, cat) == IF DictHas(data, cat) THEN data ELSE DictSet(data, cat, <<>>)

\* `self._data[category][camera_id] = (objects, when, already_tracked)`
StoreTuple(data, camera_id, cat, tuple) ==
  DictSet(data, cat, DictSet(DictGet(data, cat), camera_id, tuple))

\* the keyed tuples that a category -> camera -> tuple dict holds
KeyedOf(data) == UNION { KeyedTuples(data[i].key, data[i].val) : i \in DOMAIN data }

\* what the steps of add and of pop_all leave alone
LockUnchanged ==
  UNCHANGED << trackers, queue, dropped, run_category, camera_dict, taken,
               dropped_taken, pass_seen, pass_puts, enqueued, discarded,
               facades, sceneVars, cacheVars, publishVars >>

\* the handler thread calls add(camera_id, category, ...) and reaches the with;
\* trackObjects has started the dispatcher thread before its first add_message
AddCall(camera_id, cat) ==
  /\ adding.pc = "idle"
  /\ frames < MaxAdds
  /\ frames' = frames + 1
  /\ adding' = [pc |-> "waiting", camera_id |-> camera_id, category |-> cat,
                tuple |-> [camera_id |-> camera_id, frame |-> frames + 1]]
  /\ admissions' = admissions \cup
                     { [category |-> cat, camera_id |-> camera_id, frame |-> frames + 1] }
  /\ last' = [op |-> "add called"]
  /\ dpc' = IF dpc = "none" THEN "sleep" ELSE dpc
  /\ UNCHANGED << buffer_data, category_data, lock, snapshots >>
  /\ LockUnchanged

AddAcquire ==
  /\ adding.pc = "waiting"
  /\ LockEnters(lock)
  /\ lock' = "handler"
  /\ adding' = [adding EXCEPT !.pc = "locked"]
  /\ last' = [op |-> "add locked"]
  /\ UNCHANGED << buffer_data, dpc, category_data, frames, admissions, snapshots >>
  /\ LockUnchanged

AddEnsure ==
  /\ adding.pc = "locked"
  /\ buffer_data' = EnsureCategory(buffer_data, adding.category)
  /\ adding' = [adding EXCEPT !.pc = "ensured"]
  /\ last' = [op |-> "add ensured"]
  /\ UNCHANGED << dpc, category_data, frames, admissions, lock, snapshots >>
  /\ LockUnchanged

\* the store raises KeyError when the category is no longer in _data
AddStore ==
  /\ adding.pc = "ensured"
  /\ IF DictHas(buffer_data, adding.category)
     THEN /\ buffer_data' = StoreTuple(buffer_data, adding.camera_id,
                                       adding.category, adding.tuple)
          /\ last' = [op |-> "add stored"]
     ELSE /\ UNCHANGED buffer_data
          /\ last' = [op |-> "add raised KeyError"]
  /\ adding' = [adding EXCEPT !.pc = "stored"]
  /\ UNCHANGED << dpc, category_data, frames, admissions, lock, snapshots >>
  /\ LockUnchanged

\* the with block of add ends and add returns
AddRelease ==
  /\ adding.pc = "stored"
  /\ lock' = "free"
  /\ adding' = Idle
  /\ last' = [op |-> "add"]
  /\ UNCHANGED << buffer_data, dpc, category_data, frames, admissions, snapshots >>
  /\ LockUnchanged

\* the dispatcher thread, after its sleep, calls pop_all and enters the with
PopAcquire ==
  /\ dpc = "sleep"
  /\ LockEnters(lock)
  /\ lock' = "dispatcher"
  /\ dpc' = "locked"
  /\ last' = [op |-> "pop_all locked"]
  /\ UNCHANGED << buffer_data, category_data, frames, admissions, adding, snapshots >>
  /\ LockUnchanged

\* `result = self._data.copy()`: the inner dicts, which the copy shares with
\* _data, are written by no step between this one and the clear
PopCopy ==
  /\ dpc = "locked"
  /\ category_data' = BufferPopAll(buffer_data).result
  /\ dpc' = "copied"
  /\ last' = [op |-> "pop_all copied"]
  /\ UNCHANGED << buffer_data, frames, admissions, lock, adding, snapshots >>
  /\ LockUnchanged

\* `self._data.clear()`
PopClear ==
  /\ dpc = "copied"
  /\ buffer_data' = BufferPopAll(buffer_data).data
  /\ dpc' = "cleared"
  /\ last' = [op |-> "pop_all cleared"]
  /\ UNCHANGED << category_data, frames, admissions, lock, adding, snapshots >>
  /\ LockUnchanged

\* `return result`: the with block ends and run() has the snapshot
PopReturn ==
  /\ dpc = "cleared"
  /\ lock' = "free"
  /\ dpc' = "sleep"
  /\ snapshots' = snapshots \cup KeyedOf(category_data)
  /\ last' = [op |-> "pop_all"]
  /\ UNCHANGED << buffer_data, category_data, frames, admissions, adding >>
  /\ LockUnchanged

NextLock ==
  \/ \E camera_id \in CameraIDs, cat \in Categories : AddCall(camera_id, cat)
  \/ AddAcquire
  \/ AddEnsure
  \/ AddStore
  \/ AddRelease
  \/ PopAcquire
  \/ PopCopy
  \/ PopClear
  \/ PopReturn

SpecLock == InitChunk /\ [][NextLock]_vars

\* the add in progress has not stored its tuple yet
Pending(a) == adding.pc \in {"waiting", "locked", "ensured"} /\ a.frame = adding.tuple.frame

\* for each key, the keyed tuple of the latest add that has stored
LatestAdded ==
  { a \in admissions :
      /\ ~Pending(a)
      /\ \A b \in admissions :
           (b.category = a.category /\ b.camera_id = a.camera_id /\ ~Pending(b))
             => b.frame <= a.frame }

InAdd == adding.pc \in {"locked", "ensured", "stored"}

InPopAll == dpc \in {"locked", "copied", "cleared"}

\* C26: add and pop_all never run inside their with blocks together; outside
\* pop_all the latest tuple added for a key is in a returned snapshot or in
\* the buffer, no tuple is in both, and the buffer is empty when pop_all
\* returns
C26_AddAndPopAllExclusive ==
  /\ ~(InAdd /\ InPopAll)
  /\ last.op # "add raised KeyError"
  /\ ~InPopAll => LatestAdded \subseteq (KeyedOf(buffer_data) \cup snapshots)
  /\ KeyedOf(buffer_data) \cap snapshots = {}
  /\ last.op = "pop_all" => buffer_data = <<>>

\* pop_all has returned a tuple while the handler was waiting in add
C26_Witness ==
  /\ last.op = "pop_all"
  /\ adding.pc = "waiting"
  /\ snapshots # {}

\* ----------------------------------------------- time chunking: queue bound

\* the cameras whose frames have been submitted for the category
Submitters(cat) == { a.camera_id : a \in { b \in admissions : b.category = cat } }

\* C27: a category's worker queue never holds more tuples than the number of
\* distinct cameras that have submitted frames for the category, and the
\* dispatcher enqueues for a category only in a pass that found its queue empty
C27_QueueBoundedByCameras ==
  /\ \A cat \in Categories : Len(queue[cat]) <= Cardinality(Submitters(cat))
  /\ dpc = "put" =>
       \E seen \in pass_seen : seen.category = run_category /\ seen.queue_len = 0

\* a queue filled up to its bound has made a pass drop a later frame
C27_Witness ==
  \E cat \in Categories :
    /\ Len(queue[cat]) = 2
    /\ Cardinality(Submitters(cat)) = 2
    /\ \E d \in discarded : d.category = cat

\* --------------------------------------- a scene's time-chunk dispatchers
\* facades lists every tracker object that Scene._setTracker has built for the
\* scene, oldest first: its class, whether its TimeChunkProcessor thread has
\* been started, the thread's _stop, and how many tuples its buffer and its
\* worker queue hold.  The last one is the scene's tracker while the cache
\* holds the scene.

MaxFacades == 3

\* TimeChunkProcessor.__init__ sets self._stop = False
NewFacade(class) ==
  [class |-> class, started |-> FALSE, stop |-> FALSE, buffered |-> 0, queued |-> 0]

FacadeSceneDatas ==
  { TickSceneData(NoTrackerConfig, TRUE),
    TickSceneData(<< 1, 1, 1, TRUE, DEFAULT_CHUNKING_INTERVAL_MS >>, TRUE),
    TickSceneData(<< 2, 1, 1, TRUE, DEFAULT_CHUNKING_INTERVAL_MS >>, TRUE) }

HasScene == current_scene # <<>>

FacadeUnchanged ==
  UNCHANGED << chain_data, max_now, cacheVars, publishVars, buffer_data, trackers,
               queue, dropped, dpc, category_data, run_category, camera_dict,
               frames, admissions, taken, dropped_taken, pass_seen, pass_puts,
               enqueued, discarded, lock, adding, snapshots >>

\* refreshScenes finds a scene that the cache does not hold: Scene.deserialize
Rebuild(scene_data) ==
  /\ ~HasScene
  /\ Len(facades) < MaxFacades
  /\ \E scene \in { deserialize(scene_data) } :
       /\ current_scene' = scene
       /\ facades' = Append(facades, NewFacade(scene.tracker.class))
  /\ last' = [op |-> "deserialize"]
  /\ FacadeUnchanged

\* refreshScenes finds a scene that the cache holds: scene.updateScene
Reconfigure(scene_data) ==
  /\ HasScene
  /\ Len(facades) < MaxFacades
  /\ \E scene \in { updateScene(Aged(current_scene), scene_data) } :
       /\ current_scene' = scene
       /\ facades' = IF scene.tracker.isNew
                     THEN Append(facades, NewFacade(scene.tracker.class))
                     ELSE facades
  /\ last' = [op |-> "updateScene"]
  /\ FacadeUnchanged

\* the scene leaves the cache: invalidate(), or a refresh that no longer
\* lists it; nothing is called on the scene or on its tracker
Drop ==
  /\ HasScene
  /\ current_scene' = <<>>
  /\ last' = [op |-> "dropped"]
  /\ UNCHANGED facades
  /\ FacadeUnchanged

\* the scene's tracker.trackObjects with detections of a camera:
\* _createIlabsTrackers starts the facade's processor unless it has one, and
\* add_message buffers the tuple
Track ==
  /\ HasScene
  /\ facades[Len(facades)].class = "time_chunked_intel_labs"
  /\ facades' = [facades EXCEPT ![Len(facades)].started = TRUE,
                                ![Len(facades)].buffered = 1]
  /\ last' = [op |-> "trackObjects"]
  /\ UNCHANGED current_scene
  /\ FacadeUnchanged

\* `while not self._stop`
Runs(facade) == facade.started /\ ~facade.stop

Running == { i \in DOMAIN facades : Runs(facades[i]) }

\* one pass of the run() of facade i's processor: pop_all, then the put
\* unless the queue is not empty
Pass(i) ==
  /\ i \in Running
  /\ facades' = [facades EXCEPT
                   ![i].buffered = 0,
                   ![i].queued = IF @ = 0 THEN facades[i].buffered ELSE @]
  /\ last' = [op |-> "run", facade |-> i,
              put |-> IF facades[i].queued = 0 THEN facades[i].buffered ELSE 0]
  /\ UNCHANGED current_scene
  /\ FacadeUnchanged

\* the worker of facade i's tracker takes the queued tuple
Take(i) ==
  /\ i \in DOMAIN facades
  /\ facades[i].queued > 0
  /\ facades' = [facades EXCEPT ![i].queued = 0]
  /\ last' = [op |-> "get"]
  /\ UNCHANGED current_scene
  /\ FacadeUnchanged

NextFacade ==
  \/ \E scene_data \in FacadeSceneDatas : Rebuild(scene_data)
  \/ \E scene_data \in FacadeSceneDatas : Reconfigure(scene_data)
  \/ Drop
  \/ Track
  \/ \E i \in 1..MaxFacades : Pass(i)
  \/ \E i \in 1..MaxFacades : Take(i)

SpecFacade == InitChunk /\ [][NextFacade]_vars

\* C28: at most one dispatcher of the scene runs, and a dispatcher that puts
\* a tuple on a worker queue is the one of the scene's current tracker
C28_OneRunningDispatcher ==
  /\ Cardinality(Running) <= 1
  /\ (last.op = "run" /\ last.put > 0) => (HasScene /\ last.facade = Len(facades))

\* ------------------------------------------ time chunking: what is buffered

\* C29: every trackObjects call that does not raise buffers its tuple for
\* each of its categories under the camera's key, a call with an empty
\* object list included
C29_EveryCallBuffers ==
  (last.op = "trackObjects" /\ ~last.raised) =>
    /\ last.buffered
    /\ \A i \in DOMAIN last.categories :
         Buffered(buffer_data, last.categories[i], last.camera_id).frame = last.frame

\* ----------------------------------------------- the scene cache: indexes

\* the uids of the scenes of the list that getScenes() returned
FetchedUids == { fetched.results[i].uid : i \in DOMAIN fetched.results }

\* index holds exactly the keys of kind (cameras or sensors) of the cached
\* scenes, each under the uid of a cached scene that has the key
Indexes(index, kind) ==
  LET scenes == cache_manager.cached_scenes_by_uid
  IN  /\ DOMAIN index = UNION { DOMAIN scenes[uid][kind] : uid \in DOMAIN scenes }
      /\ \A k \in DOMAIN index :
           index[k] \in DOMAIN scenes /\ k \in DOMAIN scenes[index[k]][kind]

\* C30: after a refreshScenes that got results the by-uid index holds exactly
\* the fetched uids, each scene with the cameras and sensors fetched for it,
\* and the by-camera and by-sensor indexes hold exactly the cameras and
\* sensors of those scenes, each under a cached scene that has it
C30_IndexesMatchFetched ==
  cache_manager.get_scenes = "loaded" =>
    /\ ~cache_manager.by_uid_is_None
    /\ DOMAIN cache_manager.cached_scenes_by_uid = FetchedUids
    /\ \A i \in DOMAIN fetched.results :
         LET scene == cache_manager.cached_scenes_by_uid[fetched.results[i].uid]
         IN  /\ DOMAIN scene.cameras = DOMAIN fetched.results[i].cameras
             /\ DOMAIN scene.sensors = DOMAIN fetched.results[i].sensors
    /\ Indexes(cache_manager.cached_scenes_by_cameraID, "cameras")
    /\ Indexes(cache_manager.cached_scenes_by_sensorID, "sensors")

\* updateSubscriptions has refreshed the cache into the one scene s2 with its
\* camera and without sensor
C30_Witness ==
  /\ last.op = "updateSubscriptions"
  /\ cache_manager.get_scenes = "loaded"
  /\ DOMAIN cache_manager.cached_scenes_by_uid = {"s2"}
  /\ DOMAIN cache_manager.cached_scenes_by_cameraID = {"cam2"}
  /\ DOMAIN cache_manager.cached_scenes_by_sensorID = {}

\* ---------------------------------------- CacheManager: camera parameters
\* A message names its camera (id) and carries intrinsics and distortion, each
\* a positive number or None for a message without the key; the intrinsics n
\* stand for cx = cy = n.  camera_parameters maps a camera id to what has been
\* stashed for it.

NoParameters == [intrinsics |-> None, distortion |-> None, resolution |-> None]

\* self.camera_parameters.get(message['id'], {}).get(parameter_type)
Stashed(self, id, parameter_type) ==
  MapGet(self.camera_parameters, id, NoParameters)[parameter_type]

\* what cameraParametersChanged returns
cameraParametersChanged(self, message, parameter_type) ==
  /\ message[parameter_type] # None
  /\ message[parameter_type] # Stashed(self, message.id, parameter_type)

\* what cameraParametersChanged leaves: setdefault(id, {})[type] = value
stash(self, message, parameter_type) ==
  IF cameraParametersChanged(self, message, parameter_type)
  THEN [self EXCEPT !.camera_parameters =
          MapSet(@, message.id,
                 [MapGet(@, message.id, NoParameters) EXCEPT
                    ![parameter_type] = message[parameter_type]])]
  ELSE self

\* the loop of refreshScenesForCamParams over the cached scenes: where a scene
\* has the camera of the message and the message has cx and cy, the resolution
\* [2 cx, 2 cy] is stashed unless the camera's pose has it
stashResolution(self, jdata) ==
  LET scenes == self.cached_scenes_by_uid
      differs(uid) ==
        /\ jdata.id \in DOMAIN scenes[uid].cameras
        /\ jdata.intrinsics # None
        /\ MapGet(scenes[uid].cameras[jdata.id].data, "resolution", None)
             # 2 * jdata.intrinsics
  IN  IF \E uid \in DOMAIN scenes : differs(uid)
      THEN [self EXCEPT !.camera_parameters[jdata.id].resolution = 2 * jdata.intrinsics]
      ELSE self

\* refreshScenesForCamParams once both cameraParametersChanged calls have
\* stashed into `stashed`: changed is intrinsics_changed or distortion_changed
refreshIfChanged(stashed, jdata, changed, result) ==
  IF stashed.by_uid_is_None
  THEN \* self.cached_scenes_by_uid.values()
       [stashed EXCEPT !.raised = "AttributeError"]
  ELSE IF changed
  THEN refreshScenes(stashResolution(stashed, jdata), result)
  ELSE stashResolution(stashed, jdata)

\* CacheManager.refreshScenesForCamParams(jdata), where getScenes() would
\* return result
camParamsRefresh(self, jdata, result) ==
  refreshIfChanged(stash(stash(self, jdata, "intrinsics"), jdata, "distortion"),
                   jdata,
                   \/ cameraParametersChanged(self, jdata, "intrinsics")
                   \/ cameraParametersChanged(self, jdata, "distortion"),
                   result)

\* ------------------------------------ a cache receiving camera parameters

CamParamsResult ==
  [ has_results |-> TRUE,
    results |-> << [ uid |-> "s1", name |-> "hall",
                     cameras |-> [c \in {"cam1"} |-> [resolution |-> 2]],
                     regions |-> <<>>, tripwires |-> <<>>, sensors |-> <<>>,
                     tracker_config |-> NoTrackerConfig,
                     use_tracker |-> TRUE, output_lla |-> FALSE,
                     map_corners_lla |-> "None",
                     regulated_rate |-> 5, external_update_rate |-> 5 ] >> ]

ParameterValues == {None, 1, 2}

CamParamsMessages ==
  { [id |-> i, intrinsics |-> n, distortion |-> d] :
      i \in {"cam1", "cam9"}, n \in ParameterValues, d \in ParameterValues }

InitCamParams ==
  /\ cache_manager = refreshScenes(NewCacheManager(NoTrackerConfig), CamParamsResult)
  /\ fetched = CamParamsResult
  /\ since_invalidate = -1
  /\ current_scene = <<>>
  /\ chain_data = <<>>
  /\ max_now = -1
  /\ NoPublisher
  /\ ChunkInit
  /\ last = NoOp

\* handleMovingObjectMessage calls refreshScenesForCamParams(jdata)
RefreshForCamParams(jdata) ==
  \E before \in { AgedCache(cache_manager) } :
  \E self \in { camParamsRefresh(before, jdata, CamParamsResult) } :
    /\ cache_manager' = self
    /\ last' = [op |-> "refreshScenesForCamParams", id |-> jdata.id,
                intrinsics |-> jdata.intrinsics, distortion |-> jdata.distortion,
                intrinsics_changed |-> cameraParametersChanged(before, jdata, "intrinsics"),
                distortion_changed |-> cameraParametersChanged(before, jdata, "distortion"),
                same_as_previous |->
                  /\ last.op = "refreshScenesForCamParams"
                  /\ last.id = jdata.id
                  /\ last.intrinsics = jdata.intrinsics
                  /\ last.distortion = jdata.distortion]
    /\ UNCHANGED << fetched, since_invalidate, sceneVars, chunkVars, publishVars >>

\* a lookup in between: sceneWithCameraID and its checkRefresh
LookupCamera ==
  /\ cache_manager' = checkRefresh(AgedCache(cache_manager), CamParamsResult)
  /\ last' = [op |-> "lookup"]
  /\ UNCHANGED << fetched, since_invalidate, sceneVars, chunkVars, publishVars >>

NextCamParams ==
  \/ \E jdata \in CamParamsMessages : RefreshForCamParams(jdata)
  \/ LookupCamera

SpecCamParams == InitCamParams /\ [][NextCamParams]_vars

\* C31: a message whose intrinsics or distortion differ from the stash leaves
\* its values stashed and a completed refresh, without error; a message equal
\* to the one before it causes no refresh
C31_ChangedParametersRefresh ==
  last.op = "refreshScenesForCamParams" =>
    /\ (last.intrinsics_changed \/ last.distortion_changed) =>
         /\ cache_manager.raised = "None"
         /\ cache_manager.get_scenes = "loaded"
    /\ last.intrinsics # None =>
         Stashed(cache_manager, last.id, "intrinsics") = last.intrinsics
    /\ last.distortion # None =>
         Stashed(cache_manager, last.id, "distortion") = last.distortion
    /\ last.same_as_previous => cache_manager.get_scenes = "none"

\* ------------------------------------- event passes over two tracked objects
\* The scene of SpecTick with its tracker, seen by the camera with pose; the
\* tracker holds up to two persons, each outside the region or inside it, all
\* of them reliable (frameCount 4) and none crossing the tripwire.
EventGids == {"g1", "g2"}

EventStatesOf(g) ==
  { [frameCount |-> 4, within |-> wi, crosses |-> {}] : wi \in { {}, {"r1"} } }

EventCurObjects ==
  UNION { { f \in [S -> UNION { EventStatesOf(g) : g \in EventGids }] :
              \A g \in S : f[g] \in EventStatesOf(g) } : S \in SUBSET EventGids }

EventMessages ==
  { [id |-> "cam1", frame_rate |-> None, when |-> t,
     objects |-> << << "person", c >> >>] :
      t \in Times, c \in EventCurObjects }

InitEvents ==
  /\ current_scene = Aged(deserialize(TickSceneData(NoTrackerConfig, TRUE)))
  /\ chain_data = [g \in EventGids |-> NoChain]
  /\ max_now = -1
  /\ NoPublisher
  /\ cache_manager = <<>>
  /\ fetched = <<>>
  /\ since_invalidate = -1
  /\ ChunkInit
  /\ last = [op |-> "init", began |-> [g \in EventGids |-> None]]

\* history: for each object, the time of the pass with which its present stay
\* in region r1 began, a stay lasting while the object is inside the region
\* or listed in region.objects; None while it is neither
Began(scene, jdata) ==
  LET cur == jdata.objects[1][2]
  IN  [ g \in EventGids |->
          IF \/ g \in DOMAIN cur /\ "r1" \in cur[g].within
             \/ g \in MapGet(scene.regions["r1"].live.objects, "person", {})
          THEN IF last.began[g] # None THEN last.began[g] ELSE jdata.when
          ELSE None ]

\* scene.processCameraData(jdata, when=jdata.when), with the history of stays
EventPass(jdata) ==
  \E w \in { processCameraData(World, jdata) } :
    /\ current_scene' = w.scene
    /\ chain_data' = w.chain_data
    /\ max_now' = w.max_now
    /\ last' = [op |-> "processCameraData", jdata |-> jdata, returned |-> w.returned,
                began |-> Began(w.scene, jdata)]
    /\ UNCHANGED << chunkVars, cacheVars, publishVars >>

NextEvents == \E jdata \in EventMessages : EventPass(jdata)

SpecEvents == InitEvents /\ [][NextEvents]_vars

\* the occupants of the region (or sensor, or the crossers of the tripwire)
\* recorded for persons
PersonsOf(live) == MapGet(live.objects, "person", {})

\* C32: whenever a pass stages a region event, the region's
\* objects[detectionType] are the current occupants, its `when` is now and the
\* region is in events['objects']; it is in events['count'] exactly when the
\* number of occupants changed, so every region of events['count'] is also in
\* events['objects']
C32_StagedRegionEvent ==
  [][ PersonPassStep =>
        /\ \A key \in DOMAIN current_scene.regions :
             LET before == current_scene.regions[key].live
                 after == current_scene'.regions[key].live
             IN  /\ key \in Range(current_scene'.events.objects) =>
                      /\ after.objects["person"] = RegionGate(key)
                      /\ after.when = last'.jdata.when
                      /\ key \in Range(current_scene'.events.count)
                           <=> Cardinality(RegionGate(key)) # Cardinality(PersonsOf(before))
                 /\ after # before => key \in Range(current_scene'.events.objects)
        /\ Range(current_scene'.events.count) \subseteq Range(current_scene'.events.objects)
    ]_vars

\* a pass that found g2 in the region in place of g1: the region is staged for
\* its objects and not for its count
C32_Witness ==
  /\ last.op = "processCameraData"
  /\ last.returned = "True"
  /\ "r1" \in Range(current_scene.events.objects)
  /\ "r1" \notin Range(current_scene.events.count)
  /\ current_scene.regions["r1"].live.objects = [person |-> {"g2"}]
  /\ current_scene.regions["r1"].live.exited["person"] # {}
  /\ current_scene.regions["r1"].live.when = last.jdata.when

\* ------------------------------------------ event passes over two crossers
\* The same scene; the tracker holds up to two persons outside the region,
\* each crossing the tripwire with its last move or not, g1 young or reliable.
CrossingStatesOf(g) ==
  { [frameCount |-> f, within |-> {}, crosses |-> c] :
      f \in IF g = "g1" THEN {3, 4} ELSE {4},
      c \in { {}, {"t1"} } }

CrossingCurObjects ==
  UNION { { f \in [S -> UNION { CrossingStatesOf(g) : g \in EventGids }] :
              \A g \in S : f[g] \in CrossingStatesOf(g) } : S \in SUBSET EventGids }

CrossingMessages ==
  { [id |-> "cam1", frame_rate |-> None, when |-> t,
     objects |-> << << "person", c >> >>] :
      t \in Times, c \in CrossingCurObjects }

NextCrossings == \E jdata \in CrossingMessages : EventPass(jdata)

SpecCrossings == InitEvents /\ [][NextCrossings]_vars

\* the objects of the pass that are reliable and whose last move crosses the
\* tripwire, a move being known of an object with two published locations
Crossers(key) ==
  LET cur == last'.jdata.objects[1][2]
  IN  { g \in DOMAIN cur :
          /\ cur[g].frameCount > 3
          /\ chain_data[g].publishedLocations >= 1
          /\ key \in cur[g].crosses }

\* C33: a pass stages a tripwire exactly when the number of objects crossing
\* it in this pass differs from the number recorded in tripwire.objects for
\* the type and now - tripwire.when > DEBOUNCE_DELAY; then the recorded objects
\* are this pass's crossers and `when` is now, otherwise both stay; an object
\* with fewer than two published locations is never a crosser
C33_TripwireStagedOnCountChange ==
  [][ PersonPassStep =>
        \A key \in DOMAIN current_scene.tripwires :
          LET before == current_scene.tripwires[key].live
              after == current_scene'.tripwires[key].live
              now == last'.jdata.when
          IN  /\ key \in Range(current_scene'.events.objects)
                   <=> /\ Cardinality(Crossers(key)) # Cardinality(PersonsOf(before))
                       /\ now - before.when > DEBOUNCE_DELAY
              /\ IF key \in Range(current_scene'.events.objects)
                 THEN /\ after.objects["person"] = Crossers(key)
                      /\ after.when = now
                 ELSE /\ after.objects = before.objects
                      /\ after.when = before.when
              /\ \A g \in PersonsOf(after) \ PersonsOf(before) :
                   chain_data'[g].publishedLocations >= 2
    ]_vars

\* a pass in which g2, recorded as crosser, no longer crosses and g1, seen
\* before, crosses: as many crossers as recorded, so nothing is staged and the
\* tripwire keeps g2
C33_Witness ==
  /\ last.op = "processCameraData"
  /\ last.returned = "True"
  /\ DOMAIN last.jdata.objects[1][2] = {"g1", "g2"}
  /\ last.jdata.objects[1][2]["g1"] = [frameCount |-> 4, within |-> {}, crosses |-> {"t1"}]
  /\ last.jdata.objects[1][2]["g2"].crosses = {}
  /\ chain_data["g1"].publishedLocations = 2
  /\ current_scene.tripwires["t1"].live.objects = [person |-> {"g2"}]
  /\ last.jdata.when - current_scene.tripwires["t1"].live.when > DEBOUNCE_DELAY
  /\ current_scene.events.objects = <<>>

\* the pass staged an event of region r1 for persons
StagedR1 == "r1" \in Range(current_scene'.events.objects)

\* C34: every exited entry of a staged region event carries
\* dwell = now - the entered time written into chain_data.regions[regionUid]
\* when that stay began, and the entry is removed when the exit is staged
C34_DwellSinceStayBegan ==
  [][ PersonPassStep /\ StagedR1 =>
        LET exited == current_scene'.regions["r1"].live.exited["person"]
            old == PersonsOf(current_scene.regions["r1"].live) \ RegionGate("r1")
        IN  /\ { e.gid : e \in exited } = old
            /\ \A e \in exited :
                 /\ e.dwell = last'.jdata.when - last.began[e.gid]
                 /\ "r1" \notin DOMAIN chain_data'[e.gid].regions
    ]_vars

\* the objects that publishRegionDetections lists for the region under key
\* after the pass: the tracked objects with an entry for it in their chain data
RegionStream(key) ==
  { g \in DOMAIN last.jdata.objects[1][2] : key \in DOMAIN chain_data[g].regions }

\* the tracked objects that the pass found inside the region under key
Inside(key) ==
  { g \in DOMAIN last.jdata.objects[1][2] : key \in last.jdata.objects[1][2][g].within }

\* C35: an object has an entry for a region in chain_data.regions only while
\* it is inside the region or listed in region.objects; one that entered and
\* left again, also within the debounce window, does not keep the entry, so
\* that the per-region detection stream lists only occupants
C35_EntryOnlyWhileInsideOrListed ==
  last.op = "processCameraData" /\ last.returned = "True" =>
    RegionStream("r1") \subseteq Inside("r1") \cup PersonsOf(current_scene.regions["r1"].live)

\* the pass before this one was an event pass for persons
AfterPass == last.op = "processCameraData" /\ last.returned = "True"

\* C36: an entry or exit that the debounce suppressed is not lost: while the
\* object's difference from region.objects persists, the first pass for the
\* type with now - region.when > DEBOUNCE_DELAY stages an event that reports
\* the object in entered (or in exited)
C36_SuppressedChangeReportedLater ==
  [][ /\ PersonPassStep
      /\ AfterPass
      /\ last'.jdata.when - current_scene.regions["r1"].live.when > DEBOUNCE_DELAY
      => LET before == current_scene.regions["r1"].live
             after == current_scene'.regions["r1"].live
             waitingIn == (Inside("r1") \cap RegionGate("r1")) \ PersonsOf(before)
             waitingOut == PersonsOf(before) \ (Inside("r1") \cup RegionGate("r1"))
         IN  /\ waitingIn # {} \/ waitingOut # {} => StagedR1
             /\ \A g \in waitingIn : g \in after.entered["person"]
             /\ \A g \in waitingOut : \E e \in after.exited["person"] : e.gid = g
    ]_vars

\* g1 was found in the region by a pass whose event the debounce suppressed,
\* and a later pass, finding it still there, staged the event with g1 entered
C36_Witness ==
  /\ AfterPass
  /\ "r1" \in Range(current_scene.events.objects)
  /\ "g1" \in current_scene.regions["r1"].live.entered["person"]
  /\ "g1" \in Inside("r1")
  /\ last.began["g1"] < last.jdata.when
  /\ chain_data["g1"].regions["r1"] = last.began["g1"]

\* ------------------------------------- a controller handling staged events
\* The controller over scene s1 with camera cam1, camera cam2 that has no pose
\* yet, region r1 and sensor n1, and the child scene s2 of s1. Frames carry
\* the categories person and vehicle in either order, or person alone; the
\* tracker holds at most the person g1, inside or outside the region.
MaxHandleClock == 3

HandleResult ==
  [ has_results |-> TRUE,
    results |->
      << [ uid |-> "s1", name |-> "hall",
           cameras |-> [c \in {"cam1", "cam2"} |->
                          IF c = "cam1" THEN [resolution |-> 1, translation |-> 1]
                                        ELSE [resolution |-> 1]],
           regions |-> [r \in {"r1"} |-> [name |-> "dock", points |-> 1]],
           tripwires |-> <<>>,
           sensors |-> [n \in {"n1"} |-> [name |-> "temp", points |-> 1]],
           tracker_config |-> NoTrackerConfig,
           use_tracker |-> TRUE, output_lla |-> FALSE, map_corners_lla |-> "None",
           regulated_rate |-> 1, external_update_rate |-> 2 ],
         [ uid |-> "s2", name |-> "yard", parent |-> "s1",
           cameras |-> <<>>, regions |-> <<>>, tripwires |-> <<>>, sensors |-> <<>>,
           tracker_config |-> NoTrackerConfig,
           use_tracker |-> TRUE, output_lla |-> FALSE, map_corners_lla |-> "None",
           regulated_rate |-> 1, external_update_rate |-> 2 ] >> ]

\* what the tracker holds of persons
HandlePersons ==
  { <<>> } \cup { [g \in Gids |-> [frameCount |-> 4, within |-> wi, crosses |-> {}]] :
                    wi \in { {}, {"r1"} } }

HandleFrames(now) ==
  { [ topic |-> "camera", topic_id |-> c, id |-> c, timestamp |-> now,
      frame_rate |-> None, objects |-> o, both |-> FALSE ] :
      c \in {"cam1", "cam2"},
      o \in UNION { { << << "person", p >> >>,
                      << << "person", p >>, << "vehicle", <<>> >> >>,
                      << << "vehicle", <<>> >>, << "person", p >> >> } :
                    p \in HandlePersons } }

HandleBatches(now) ==
  { [ topic |-> "external", topic_id |-> "s2", id |-> "s2", timestamp |-> now,
      frame_rate |-> None, objects |-> p, both |-> b ] :
      p \in HandlePersons, b \in BOOLEAN }

HandleReadings(now) ==
  { [ topic |-> "sensor", id |-> "n1", value |-> 20, timestamp |-> t ] :
      t \in { now - 1, now } }

InitHandle ==
  /\ cache_manager = AgedCache(refreshScenes(NewCacheManager(NoTrackerConfig), HandleResult))
  /\ fetched = HandleResult
  /\ since_invalidate = -1
  /\ regulate_cache = <<>>
  /\ clock = 2
  /\ pubs = <<>>
  /\ controller = [rewrite_bad_time |-> FALSE, rewrite_all_time |-> FALSE,
                   max_lag |-> IngestMaxLag]
  /\ metrics_dropped = 0
  /\ NoSubscriptions
  /\ current_scene = <<>>
  /\ chain_data = [g \in Gids |-> NoChain]
  /\ max_now = -1
  /\ ChunkInit
  /\ last = NoOp

\* the events that a handler call published, in order
EventsOf(published) ==
  [ i \in DOMAIN SelectSeq(published, LAMBDA p : p.topic = "event") |->
      SelectSeq(published, LAMBDA p : p.topic = "event")[i].thing_type ]

\* what a handler call has done with a message
Handled(op, self, message) ==
  [ op |-> op, message |-> message, raised |-> self.raised,
    outcome |-> self.outcome, success |-> self.success,
    submitted |-> self.submitted, events |-> EventsOf(self.published) ]

\* a moving-object message arrives and is handled at time now
HandleMovingObject(message, now) ==
  \E before \in { Ingesting } :
  \E self \in { ingestMovingObjectMessage(before, message, now, HandleResult) } :
      /\ Ingested(self)
      /\ clock' = now
      /\ last' = Handled("handleMovingObjectMessage", self, message)

\* a sensor message arrives and is handled at time now
HandleSensor(jdata, now) ==
  \E before \in { Ingesting } :
  \E self \in { handleSensorMessage(before, jdata, now, HandleResult) } :
      /\ Ingested(self)
      /\ clock' = now
      /\ last' = Handled("handleSensorMessage", self, jdata)

HandleNows == { t \in clock..(clock + 1) : t <= MaxHandleClock }

NextHandle ==
  \/ \E now \in HandleNows : \E message \in HandleFrames(now) :
       HandleMovingObject(message, now)
  \/ \E now \in HandleNows : \E message \in HandleBatches(now) :
       HandleMovingObject(message, now)
  \/ \E now \in HandleNows : \E jdata \in HandleReadings(now) :
       HandleSensor(jdata, now)

SpecHandle == InitHandle /\ [][NextHandle]_vars

\* the region r1 of scene s1 in the cache, before and after the step
R1Before == cache_manager.cached_scenes_by_uid["s1"].regions["r1"].live
R1After == cache_manager'.cached_scenes_by_uid["s1"].regions["r1"].live

\* the categories of the handled frame whose event pass staged an event of
\* r1: those whose occupants of r1 the pass replaced
StagedCategories ==
  { c \in { last'.message.objects[i][1] : i \in DOMAIN last'.message.objects } :
      MapGet(R1Before.objects, c, {}) # MapGet(R1After.objects, c, {}) }

\* how often the handler published the event of r1's objects
TimesPublished ==
  Cardinality({ i \in DOMAIN last'.events : last'.events[i] = << "objects", "r1" >> })

\* C37: every region or tripwire event that updateEvents stages while a
\* message is handled is published exactly once by that handler, also when
\* the message carries several detection categories: none is overwritten
\* before it is published and none is published twice
C37_StagedPublishedOnce ==
  [][ /\ last'.op = "handleMovingObjectMessage"
      /\ last'.message.topic = "camera"
      /\ last'.message.topic_id = "cam1"
      /\ last'.outcome = "published"
      => TimesPublished = Cardinality(StagedCategories)
    ]_vars

\* the scene s1 of the cache, before and after the step
S1Before == cache_manager.cached_scenes_by_uid["s1"]
S1After == cache_manager'.cached_scenes_by_uid["s1"]

\* the handled message is one that the scene discards while returning
\* success: a sensor reading not later than the last one, a frame of the
\* camera without pose, a child's batch with both lat_long_alt and translation
DiscardedWithSuccess ==
  \/ /\ last'.op = "handleSensorMessage"
     /\ S1Before.sensors["n1"].live.lastWhen # None
     /\ last'.message.timestamp <= S1Before.sensors["n1"].live.lastWhen
  \/ /\ last'.op = "handleMovingObjectMessage"
     /\ last'.message.topic = "camera"
     /\ last'.message.topic_id = "cam2"
  \/ /\ last'.op = "handleMovingObjectMessage"
     /\ last'.message.topic = "external"
     /\ last'.message.both

\* the step left the regions, tripwires and sensors of s1 as they were
LiveStateKept ==
  /\ \A k \in DOMAIN S1Before.regions : S1After.regions[k].live = S1Before.regions[k].live
  /\ \A k \in DOMAIN S1Before.tripwires : S1After.tripwires[k].live = S1Before.tripwires[k].live
  /\ \A k \in DOMAIN S1Before.sensors : S1After.sensors[k].live = S1Before.sensors[k].live

\* C38: a message that the scene discards while returning success (a stale
\* sensor reading, a frame of a camera without pose, a child object with both
\* lat_long_alt and translation) makes no tracker submission, changes no
\* region, tripwire or sensor state and causes no event to be published: the
\* events staged by an earlier message are not published again
C38_DiscardedMessageSilent ==
  [][ DiscardedWithSuccess =>
        /\ last'.success = "True"
        /\ last'.submitted = <<>>
        /\ LiveStateKept
        /\ last'.events = <<>>
    ]_vars

\* C39: the pruning of the regulated cache on a database update removes a
\* scene's entry only if the scene is no longer configured (and a per-camera
\* rate only if the camera is gone); the entries of the scenes that remain,
\* with their cached detections and last publish time, stay as they were
C39_PruningKeepsConfiguredScenes ==
  [][ last'.op = "handleDatabaseMessage" =>
        \A uid \in DOMAIN regulate_cache :
          uid \in DOMAIN cache_manager'.cached_scenes_by_uid =>
            /\ uid \in DOMAIN regulate_cache'
            /\ regulate_cache'[uid] = regulate_cache[uid]
    ]_vars

\* --------------------------------------------- the rate of regulated messages
\* SceneController.calculateRate keeps a running mean of the time between its
\* calls in the attributes regulate_rate and regulate_last of the controller;
\* publishRegulatedDetections calls it for every message of every scene and
\* puts round(1 / rate, 1) into the regulated message as 'scene_rate'.
\* regulate_rate is held as the exact fraction << numerator, denominator >>,
\* in seconds; has_rate says that the attribute exists. Messages arrive at
\* whole seconds, at most MaxArrivals of them.
AVG_FRAMES == 100
MaxArrivals == 4

NoRegulator == [has_rate |-> FALSE, regulate_rate |-> << 1, 1 >>, regulate_last |-> 0]

\* SceneController.calculateRate at time now (in half seconds)
calculateRate(self, now) ==
  LET first == IF self.has_rate
               THEN self
               ELSE [has_rate |-> TRUE, regulate_rate |-> << 1, 1 >>, regulate_last |-> now]
      delta == (now - first.regulate_last) \div 2
      n == first.regulate_rate[1]
      d == first.regulate_rate[2]
  IN  [first EXCEPT !.regulate_rate = << AVG_FRAMES * n + delta * d, (AVG_FRAMES + 1) * d >>,
                    !.regulate_last = now]

\* round(a / b), halves to the even neighbour
RoundDiv(a, b) ==
  LET q == a \div b
      r == a % b
  IN  IF 2 * r < b THEN q
      ELSE IF 2 * r > b THEN q + 1
      ELSE IF q % 2 = 0 THEN q ELSE q + 1

\* round(1 / update_rate, 1), in tenths
SceneRate(update_rate) == RoundDiv(10 * update_rate[2], update_rate[1])

\* SceneController.publishRegulatedDetections of a message of scene uid, whose
\* regulated_rate is 1 Hz, as far as the rate and the timer go: the controller
\* and its regulate_cache after the call, whether a regulated message was
\* published and the scene_rate it carried
regulatedRate(self, cache, uid, now) ==
  LET rated == calculateRate(self, now)
      scene == IF uid \in DOMAIN cache THEN cache[uid] ELSE [objects |-> <<>>, last |-> None]
  IN  IF shouldPublish(scene.last, now, Period(1))
      THEN [controller |-> rated, cache |-> MapSet(cache, uid, [scene EXCEPT !.last = now]),
            published |-> TRUE, scene_rate |-> SceneRate(rated.regulate_rate)]
      ELSE [controller |-> rated, cache |-> MapSet(cache, uid, scene),
            published |-> FALSE, scene_rate |-> None]

\* the times between two arrivals, in half seconds: none, 5 s, 10 s
Gaps == {0, 10, 20}

\* last.alone is history: the controller and cache that the same run leaves
\* when only the messages of scene s1 arrive, at the same times
InitRegulate ==
  /\ cache_manager = AgedCache(refreshScenes(NewCacheManager(NoTrackerConfig), PublishResult))
  /\ fetched = PublishResult
  /\ since_invalidate = -1
  /\ regulate_cache = <<>>
  /\ clock = 0
  /\ pubs = <<>>
  /\ controller = NoRegulator
  /\ metrics_dropped = 0
  /\ NoSubscriptions
  /\ current_scene = <<>>
  /\ chain_data = <<>>
  /\ max_now = -1
  /\ ChunkInit
  /\ last = [op |-> "init", arrivals |-> 0,
             alone |-> [controller |-> NoRegulator, cache |-> <<>>]]

\* a message of scene uid arrives at time now and publishRegulatedDetections
\* runs for it
Arrive(uid, now) ==
  /\ last.arrivals < MaxArrivals
  /\ \E run \in { regulatedRate(controller, regulate_cache, uid, now) } :
     \E twin \in { IF uid = "s1"
                   THEN regulatedRate(last.alone.controller, last.alone.cache, uid, now)
                   ELSE [controller |-> last.alone.controller, cache |-> last.alone.cache,
                         published |-> FALSE, scene_rate |-> None] } :
       /\ controller' = run.controller
       /\ regulate_cache' = run.cache
       /\ clock' = now
       /\ last' = [op |-> "publishRegulatedDetections", scene |-> uid,
                   arrivals |-> last.arrivals + 1,
                   published |-> run.published, scene_rate |-> run.scene_rate,
                   alone |-> [controller |-> twin.controller, cache |-> twin.cache],
                   alone_published |-> twin.published,
                   alone_scene_rate |-> twin.scene_rate]
  /\ UNCHANGED << pubs, metrics_dropped, subscribeVars, sceneVars, chunkVars, cacheVars >>

NextRegulate == \E uid \in {"s1", "s2"}, gap \in Gaps : Arrive(uid, clock + gap)

SpecRegulate == InitRegulate /\ [][NextRegulate]_vars

\* C40: the scene_rate of a scene's regulated messages depends only on the
\* arrival times of that scene's own messages: a regulated message of s1
\* carries the scene_rate it carries when the messages of s2 do not arrive
C40_SceneRateFromOwnArrivals ==
  last.op = "publishRegulatedDetections" /\ last.scene = "s1" /\ last.published =>
    /\ last.alone_published
    /\ last.scene_rate = last.alone_scene_rate

====
